---- MODULE Spec2Model ----
(***************************************************************************)
(* A model of the bevy_knossos maze engine: the Grid and its passage       *)
(* carving, the OrthogonalMazeBuilder, the RecursiveBacktracking           *)
(* generator, the connectivity validator and the read-only operations of   *)
(* OrthogonalMaze (iter, ends, is_valid).                                  *)
(***************************************************************************)
EXTENDS Integers, Sequences, FiniteSets, TLC

(***************************************************************************)
(* Bounds of the model.                                                    *)
(***************************************************************************)
MaxWidth == 3
MaxHeight == 2
MaxCells == 6
\* number of states of the modelled pseudo random generator
RngStates == 12
\* seeds 0 .. MaxSeed-1 can be given to the builder
MaxSeed == 3
\* initial states 0 .. ThreadSeeds-1 of the thread-local generator
ThreadSeeds == 3

\* Option values: None is the empty set, Some(x) the set of x alone
None == {}

Some(x) == {x}

The(o) == CHOOSE x \in o : TRUE

(***************************************************************************)
(* Cell: a set of passage flags.                                           *)
(***************************************************************************)
NORTH == "NORTH"
SOUTH == "SOUTH"
WEST == "WEST"
EAST == "EAST"

Cell == SUBSET {NORTH, SOUTH, WEST, EAST}

\* the array literal [Cell::NORTH, Cell::SOUTH, Cell::WEST, Cell::EAST]
DirsArray == <<NORTH, SOUTH, WEST, EAST>>

Directions == {NORTH, SOUTH, WEST, EAST}

opposite(d) ==
    CASE d = NORTH -> SOUTH
      [] d = SOUTH -> NORTH
      [] d = WEST -> EAST
      [] d = EAST -> WEST

walls_count(cell) == 4 - Cardinality(cell)

(***************************************************************************)
(* Grid: width, height and the row-major sequence of cells.  The k-th cell *)
(* of the code (k from 0) is cells[k + 1].                                 *)
(***************************************************************************)
Grid_new(w, h) ==
    [width |-> w, height |-> h, cells |-> [i \in 1..(w * h) |-> {}]]

get_index(g, c) == c[2] * g.width + c[1]

InGrid(g, c) == c[1] >= 0 /\ c[1] < g.width /\ c[2] >= 0 /\ c[2] < g.height

Coords(g) == {<<x, y>> : x \in 0..(g.width - 1), y \in 0..(g.height - 1)}

CellAt(g, c) == g.cells[get_index(g, c) + 1]

Neighbour(c, d) ==
    CASE d = NORTH -> <<c[1], c[2] - 1>>
      [] d = SOUTH -> <<c[1], c[2] + 1>>
      [] d = WEST -> <<c[1] - 1, c[2]>>
      [] d = EAST -> <<c[1] + 1, c[2]>>

\* get_next_cell_coords with the last row and column taken to have a
\* neighbour
get_next_cell_coords_off_by_one(g, c, d) ==
    LET n == Neighbour(c, d) IN
    IF n[1] >= 0 /\ n[1] <= g.width /\ n[2] >= 0 /\ n[2] <= g.height
    THEN [ok |-> TRUE, coords |-> n]
    ELSE [ok |-> FALSE, coords |-> None]

\* Result<Coords, TransitError>
get_next_cell_coords(g, c, d) ==
    IF InGrid(g, Neighbour(c, d))
    THEN [ok |-> TRUE, coords |-> Neighbour(c, d)]
    ELSE [ok |-> FALSE, coords |-> None]

\* carve_passage that sets the flag at coords only
carve_passage_one_sided(g, c, d) ==
    LET r == get_next_cell_coords(g, c, d) IN
    IF ~r.ok
    THEN [ok |-> FALSE, coords |-> None, grid |-> g, violation |-> FALSE]
    ELSE IF ~InGrid(g, c)
    THEN [ok |-> FALSE, coords |-> None, grid |-> g, violation |-> TRUE]
    ELSE [ok |-> TRUE, coords |-> r.coords, violation |-> FALSE,
          grid |-> [g EXCEPT !.cells[get_index(g, c) + 1] = @ \cup {d}]]

\* Result<Coords, TransitError> together with the grid after the call.
\* Setting the flag at coordinates outside the grid is an out-of-range
\* access: a contract violation, no result.
carve_passage(g, c, d) ==
    LET r == get_next_cell_coords(g, c, d) IN
    IF ~r.ok
    THEN [ok |-> FALSE, coords |-> None, grid |-> g, violation |-> FALSE]
    ELSE IF ~InGrid(g, c)
    THEN [ok |-> FALSE, coords |-> None, grid |-> g, violation |-> TRUE]
    ELSE LET i == get_index(g, c) + 1
             n == get_index(g, r.coords) + 1
         IN [ok |-> TRUE, coords |-> r.coords, violation |-> FALSE,
             grid |-> [g EXCEPT !.cells =
                          [k \in DOMAIN g.cells |->
                              IF k = i THEN g.cells[k] \cup {d}
                              ELSE IF k = n THEN g.cells[k] \cup {opposite(d)}
                              ELSE g.cells[k]]]]

is_carved(g, c, d) == d \in CellAt(g, c)

is_cell_visited(g, c) == CellAt(g, c) # {}

(***************************************************************************)
(* The random generators.  A generator is a state in 0 .. RngStates-1; a   *)
(* draw reads the state and advances it.                                   *)
(***************************************************************************)
NextRng(s) == (s + 1) % RngStates

random_range(s, n) == ((s \div 3) + (s \div 2)) % n

seed_from_u64(seed) == (7 * seed + 1) % RngStates

Swap(seq, i, j) == [seq EXCEPT ![i] = seq[j], ![j] = seq[i]]

\* dirs.shuffle(rng): Fisher-Yates from the last element down
shuffle(dirs, s) ==
    LET d1 == Swap(dirs, 4, random_range(s, 4) + 1)
        s1 == NextRng(s)
        d2 == Swap(d1, 3, random_range(s1, 3) + 1)
        s2 == NextRng(s1)
        d3 == Swap(d2, 2, random_range(s2, 2) + 1)
        s3 == NextRng(s2)
    IN [dirs |-> d3, rng |-> s3]

(***************************************************************************)
(* RecursiveBacktracking.  The recursion of carve_passages_from is kept as *)
(* an explicit stack of frames; a frame holds the coordinates of the call  *)
(* and the directions its loop has not yet taken.                          *)
(***************************************************************************)
Frame(coords, dirs) == [coords |-> coords, dirs |-> dirs]

Top(st) == st[Len(st)]

Pop(st) == SubSeq(st, 1, Len(st) - 1)

\* carve_passages_from without the recursive call: the passage is carved
\* and the loop goes on with the next direction
carve_passages_from_no_recursion(g, st, r) ==
    LET same == [grid |-> g, stack |-> st, rng |-> r, violation |-> FALSE] IN
    IF Top(st).dirs = <<>>
    THEN [same EXCEPT !.stack = Pop(st)]
    ELSE LET coords == Top(st).coords
             dir == Head(Top(st).dirs)
             rest == [st EXCEPT ![Len(st)].dirs = Tail(@)]
             nx == get_next_cell_coords(g, coords, dir)
         IN IF ~nx.ok
            THEN [same EXCEPT !.stack = rest]
            ELSE IF is_cell_visited(g, nx.coords)
            THEN [same EXCEPT !.stack = rest]
            ELSE LET cr == carve_passage(g, coords, dir) IN
                 IF cr.violation
                 THEN [same EXCEPT !.violation = TRUE]
                 ELSE [same EXCEPT !.grid = cr.grid, !.stack = rest]

\* carve_passages_from that puts the direction of a visited neighbour back
\* at the end of dirs
carve_passages_from_retry(g, st, r) ==
    LET same == [grid |-> g, stack |-> st, rng |-> r, violation |-> FALSE] IN
    IF Top(st).dirs = <<>>
    THEN [same EXCEPT !.stack = Pop(st)]
    ELSE LET coords == Top(st).coords
             dir == Head(Top(st).dirs)
             rest == [st EXCEPT ![Len(st)].dirs = Tail(@)]
             nx == get_next_cell_coords(g, coords, dir)
         IN IF ~nx.ok
            THEN [same EXCEPT !.stack = rest]
            ELSE IF is_cell_visited(g, nx.coords)
            THEN [same EXCEPT
                     !.stack = [st EXCEPT ![Len(st)].dirs =
                                              Append(Tail(@), dir)]]
            ELSE LET cr == carve_passage(g, coords, dir) IN
                 IF cr.violation
                 THEN [same EXCEPT !.violation = TRUE]
                 ELSE IF cr.ok
                 THEN LET sh == shuffle(DirsArray, r) IN
                      [same EXCEPT
                          !.grid = cr.grid,
                          !.stack = Append(rest, Frame(cr.coords, sh.dirs)),
                          !.rng = sh.rng]
                 ELSE [same EXCEPT !.stack = rest]

\* one step of the topmost call of carve_passages_from: the return when its
\* loop is over, else one iteration of the loop
carve_passages_from(g, st, r) ==
    LET same == [grid |-> g, stack |-> st, rng |-> r, violation |-> FALSE] IN
    IF Top(st).dirs = <<>>
    THEN [same EXCEPT !.stack = Pop(st)]
    ELSE LET coords == Top(st).coords
             dir == Head(Top(st).dirs)
             rest == [st EXCEPT ![Len(st)].dirs = Tail(@)]
             nx == get_next_cell_coords(g, coords, dir)
         IN IF ~nx.ok
            THEN [same EXCEPT !.stack = rest]
            ELSE IF is_cell_visited(g, nx.coords)
            THEN [same EXCEPT !.stack = rest]
            ELSE LET cr == carve_passage(g, coords, dir) IN
                 IF cr.violation
                 THEN [same EXCEPT !.violation = TRUE]
                 ELSE IF cr.ok
                 THEN LET sh == shuffle(DirsArray, r) IN
                      [same EXCEPT
                          !.grid = cr.grid,
                          !.stack = Append(rest, Frame(cr.coords, sh.dirs)),
                          !.rng = sh.rng]
                 ELSE [same EXCEPT !.stack = rest]

\* RecursiveBacktracking::generate up to the first loop of
\* carve_passages_from
RecursiveBacktracking_generate(g, start_coords, r) ==
    LET start == IF start_coords = None THEN <<0, 0>> ELSE The(start_coords)
        sh == shuffle(DirsArray, r)
    IN [grid |-> g, stack |-> <<Frame(start, sh.dirs)>>, rng |-> sh.rng]

(***************************************************************************)
(* RecursiveDivision: one open chamber is bisected by walls with one gap   *)
(* each until the chambers are single cells.  A wall segment is named by   *)
(* the cell above or left of it and the direction SOUTH or EAST.           *)
(***************************************************************************)
RECURSIVE divide(_, _, _, _, _)
divide(x, y, w, h, r) ==
    IF w < 2 /\ h < 2
    THEN [walls |-> {}, rng |-> r]
    ELSE LET horizontal == IF w < h THEN TRUE
                           ELSE IF h < w THEN FALSE
                           ELSE random_range(r, 2) = 0
             r0 == IF w = h THEN NextRng(r) ELSE r
         IN IF horizontal
            THEN LET k == random_range(r0, h - 1)
                     r1 == NextRng(r0)
                     p == IF w > 0 THEN random_range(r1, w) ELSE 0
                     r2 == NextRng(r1)
                     wall == {<<<<x + i, y + k>>, SOUTH>> :
                                 i \in (0..(w - 1)) \ {p}}
                     a == divide(x, y, w, k + 1, r2)
                     b == divide(x, y + k + 1, w, h - k - 1, a.rng)
                 IN [walls |-> wall \cup a.walls \cup b.walls, rng |-> b.rng]
            ELSE LET k == random_range(r0, w - 1)
                     r1 == NextRng(r0)
                     p == IF h > 0 THEN random_range(r1, h) ELSE 0
                     r2 == NextRng(r1)
                     wall == {<<<<x + k, y + i>>, EAST>> :
                                 i \in (0..(h - 1)) \ {p}}
                     a == divide(x, y, k + 1, h, r2)
                     b == divide(x + k + 1, y, w - k - 1, h, a.rng)
                 IN [walls |-> wall \cup a.walls \cup b.walls, rng |-> b.rng]

WallSegment(c, d) ==
    CASE d = SOUTH -> <<c, SOUTH>>
      [] d = EAST -> <<c, EAST>>
      [] d = NORTH -> <<Neighbour(c, NORTH), SOUTH>>
      [] d = WEST -> <<Neighbour(c, WEST), EAST>>

RecursiveDivision_generate(g, r) ==
    LET dv == divide(0, 0, g.width, g.height, r)
        open(c) == {d \in Directions :
                       /\ InGrid(g, Neighbour(c, d))
                       /\ WallSegment(c, d) \notin dv.walls}
    IN [grid |-> [g EXCEPT !.cells =
                     [k \in DOMAIN g.cells |->
                         open(<<(k - 1) % g.width, (k - 1) \div g.width>>)]],
        rng |-> dv.rng]

(***************************************************************************)
(* The Algorithm trait and the builder.                                    *)
(***************************************************************************)
RecursiveBacktracking == "RecursiveBacktracking"
RecursiveDivision == "RecursiveDivision"

Algorithms == {RecursiveBacktracking, RecursiveDivision}

has_start_coords(alg) == alg = RecursiveBacktracking

name(alg) == alg

\* a text between two backquote characters
Backquoted(text) == <<"BACKQUOTE", text, "BACKQUOTE">>

\* the Display text of BuildError::reason(name), in its parts
BuildError_reason(n) ==
    <<"Cannot build maze. Reason: ", "Algorithm ", Backquoted(n),
      " doesn't support ", Backquoted("start_coords")>>

\* build that seeds its generator from the OS whatever the seed
build_ignoring_seed(b, os) ==
    LET maze == Grid_new(b.width, b.height)
    IN IF b.start_coords # None /\ ~has_start_coords(b.algorithm)
       THEN [err |-> Some(BuildError_reason(name(b.algorithm))),
             grid |-> maze, rng |-> os, calls |-> 0]
       ELSE [err |-> None, grid |-> maze, rng |-> os, calls |-> 1]

\* build that calls generate first and checks the start coordinate after
build_generate_first(b, os) ==
    LET maze == Grid_new(b.width, b.height)
        r == IF b.seed = None THEN os ELSE seed_from_u64(The(b.seed))
    IN IF b.start_coords # None /\ ~has_start_coords(b.algorithm)
       THEN LET g == RecursiveDivision_generate(maze, r) IN
            [err |-> Some(BuildError_reason(name(b.algorithm))),
             grid |-> g.grid, rng |-> g.rng, calls |-> 1]
       ELSE [err |-> None, grid |-> maze, rng |-> r, calls |-> 1]

\* OrthogonalMazeBuilder::build up to the call of generate: the allocation
\* of the maze, the construction of the generator and the check of the
\* start coordinate.  os is the state an OS-seeded generator starts in.
build(b, os) ==
    LET maze == Grid_new(b.width, b.height)
        r == IF b.seed = None THEN os ELSE seed_from_u64(The(b.seed))
    IN IF b.start_coords # None /\ ~has_start_coords(b.algorithm)
       THEN [err |-> Some(BuildError_reason(name(b.algorithm))),
             grid |-> maze, rng |-> r, calls |-> 0]
       ELSE [err |-> None, grid |-> maze, rng |-> r, calls |-> 1]

(***************************************************************************)
(* validate: the recursion of visit is an explicit stack, as above.        *)
(***************************************************************************)
Contains(seq, e) == \E i \in DOMAIN seq : seq[i] = e

\* validate that does not push (0,0) before it calls visit
validate_empty_start(g, r) ==
    LET sh == shuffle(DirsArray, r) IN
    [visited |-> <<>>, stack |-> <<Frame(<<0, 0>>, sh.dirs)>>,
     rng |-> sh.rng]

\* validate up to the first loop of visit
validate(g, r) ==
    LET sh == shuffle(DirsArray, r) IN
    [visited |-> <<<<0, 0>>>>, stack |-> <<Frame(<<0, 0>>, sh.dirs)>>,
     rng |-> sh.rng]

\* visit that takes every in-grid neighbour, carved or not
visit_ignoring_walls(g, vis, st, r) ==
    IF Top(st).dirs = <<>>
    THEN [visited |-> vis, stack |-> Pop(st), rng |-> r]
    ELSE LET coords == Top(st).coords
             dir == Head(Top(st).dirs)
             rest == [st EXCEPT ![Len(st)].dirs = Tail(@)]
             nx == get_next_cell_coords(g, coords, dir)
         IN IF ~nx.ok
            THEN [visited |-> vis, stack |-> rest, rng |-> r]
            ELSE IF Contains(vis, nx.coords)
            THEN [visited |-> vis, stack |-> rest, rng |-> r]
            ELSE LET sh == shuffle(DirsArray, r) IN
                 [visited |-> Append(vis, nx.coords),
                  stack |-> Append(rest, Frame(nx.coords, sh.dirs)),
                  rng |-> sh.rng]

\* visit whose loop ends (break) at a neighbour that is not carved, where
\* the code goes on with the next direction (continue)
visit_break_at_wall(g, vis, st, r) ==
    IF Top(st).dirs = <<>>
    THEN [visited |-> vis, stack |-> Pop(st), rng |-> r]
    ELSE LET coords == Top(st).coords
             dir == Head(Top(st).dirs)
             rest == [st EXCEPT ![Len(st)].dirs = Tail(@)]
             nx == get_next_cell_coords(g, coords, dir)
         IN IF ~nx.ok
            THEN [visited |-> vis, stack |-> rest, rng |-> r]
            ELSE IF Contains(vis, nx.coords)
            THEN [visited |-> vis, stack |-> rest, rng |-> r]
            ELSE IF ~is_carved(g, coords, dir)
            THEN [visited |-> vis,
                  stack |-> [st EXCEPT ![Len(st)].dirs = <<>>], rng |-> r]
            ELSE LET sh == shuffle(DirsArray, r) IN
                 [visited |-> Append(vis, nx.coords),
                  stack |-> Append(rest, Frame(nx.coords, sh.dirs)),
                  rng |-> sh.rng]

\* one step of the topmost call of visit
visit(g, vis, st, r) ==
    IF Top(st).dirs = <<>>
    THEN [visited |-> vis, stack |-> Pop(st), rng |-> r]
    ELSE LET coords == Top(st).coords
             dir == Head(Top(st).dirs)
             rest == [st EXCEPT ![Len(st)].dirs = Tail(@)]
             nx == get_next_cell_coords(g, coords, dir)
         IN IF ~nx.ok
            THEN [visited |-> vis, stack |-> rest, rng |-> r]
            ELSE IF Contains(vis, nx.coords)
            THEN [visited |-> vis, stack |-> rest, rng |-> r]
            ELSE IF ~is_carved(g, coords, dir)
            THEN [visited |-> vis, stack |-> rest, rng |-> r]
            ELSE LET sh == shuffle(DirsArray, r) IN
                 [visited |-> Append(vis, nx.coords),
                  stack |-> Append(rest, Frame(nx.coords, sh.dirs)),
                  rng |-> sh.rng]

\* the value validate returns once visit has returned
validate_result(g, vis) == Len(vis) = g.width * g.height

(***************************************************************************)
(* OrthogonalMaze: iter, next and ends.                                    *)
(***************************************************************************)
\* next() with the two coordinates computed the other way round
iter_next_swapped(g, index) ==
    IF index < Len(g.cells)
    THEN [item |-> Some(<<<<index \div g.width, index % g.width>>,
                          g.cells[index + 1]>>),
          index |-> index + 1]
    ELSE [item |-> None, index |-> index]

\* OrthogonalMazeIterator::next at position index
iter_next(g, index) ==
    IF index < Len(g.cells)
    THEN [item |-> Some(<<<<index % g.width, index \div g.width>>,
                          g.cells[index + 1]>>),
          index |-> index + 1]
    ELSE [item |-> None, index |-> index]

RECURSIVE collect(_, _)
collect(g, index) ==
    LET n == iter_next(g, index) IN
    IF n.item = None THEN <<>> ELSE <<The(n.item)>> \o collect(g, n.index)

\* the filter of ends() with 2 walls in place of 3
IsEnd_two_walls(item) == walls_count(item[2]) = 2

IsEnd(item) == walls_count(item[2]) = 3

ends(g) == SelectSeq(collect(g, 0), IsEnd)

(***************************************************************************)
(* OrthogonalMazeIntoIterator: the iterator that owns the maze             *)
(***************************************************************************)
\* IntoIterator::into_iter of a maze with grid g
into_iter(g) == [index |-> 0, width |-> g.width, cells |-> g.cells]

\* next() that takes the last cell of the vector, not the first
into_iter_next_pop(s) ==
    IF s.cells = <<>>
    THEN [item |-> None, iter |-> s]
    ELSE [item |-> Some(<<<<s.index % s.width, s.index \div s.width>>,
                          s.cells[Len(s.cells)]>>),
          iter |-> [s EXCEPT !.index = @ + 1,
                             !.cells = SubSeq(@, 1, Len(@) - 1)]]

\* OrthogonalMazeIntoIterator::next: the item returned and the iterator
\* after the call
into_iter_next(s) ==
    IF s.cells = <<>>
    THEN [item |-> None, iter |-> s]
    ELSE [item |-> Some(<<<<s.index % s.width, s.index \div s.width>>,
                          Head(s.cells)>>),
          iter |-> [s EXCEPT !.index = @ + 1, !.cells = Tail(@)]]

(***************************************************************************)
(* The formatters AsciiNarrow and AsciiBroad.  A text is a string.         *)
(***************************************************************************)
AsciiNarrow == "AsciiNarrow"

AsciiBroad == "AsciiBroad"

Formatters == {AsciiNarrow, AsciiBroad}

\* str::repeat
RECURSIVE repeat(_, _)
repeat(str, n) == IF n = 0 THEN "" ELSE str \o repeat(str, n - 1)

\* the character after the south character of a cell, without the look at
\* the cell to the east
narrow_east_no_lookahead(g, x, y) ==
    IF is_carved(g, <<x, y>>, EAST)
    THEN IF is_carved(g, <<x, y>>, SOUTH) THEN " " ELSE "_"
    ELSE "|"

\* AsciiNarrow: the character after the south character of the cell (x, y)
narrow_east(g, x, y) ==
    IF is_carved(g, <<x, y>>, EAST)
    THEN IF \/ is_carved(g, <<x, y>>, SOUTH)
            \/ is_carved(g, <<x + 1, y>>, SOUTH)
         THEN " "
         ELSE "_"
    ELSE "|"

\* the cells read for (x, y) with the cell at (x + 1, y) read every time
narrow_east_reads_unguarded(g, x, y) == {<<x, y>>, <<x + 1, y>>}

\* AsciiNarrow: the cells whose flags are read for the two characters of
\* the cell (x, y); || does not evaluate its right side when the left holds
narrow_east_reads(g, x, y) ==
    {<<x, y>>}
    \cup IF is_carved(g, <<x, y>>, EAST) /\ ~is_carved(g, <<x, y>>, SOUTH)
         THEN {<<x + 1, y>>}
         ELSE {}

\* the cells AsciiNarrow::format reads
narrow_reads(g) ==
    UNION {narrow_east_reads(g, x, y) :
               x \in 0..(g.width - 1), y \in 0..(g.height - 1)}

\* the cells AsciiBroad::format reads
broad_reads(g) ==
    {<<x, y>> : x \in 0..(g.width - 1), y \in 0..(g.height - 1)}

\* AsciiNarrow: the characters of the cells x .. width-1 of the row y
RECURSIVE narrow_cells(_, _, _)
narrow_cells(g, x, y) ==
    IF x >= g.width THEN ""
    ELSE (IF is_carved(g, <<x, y>>, SOUTH) THEN " " ELSE "_")
         \o narrow_east(g, x, y)
         \o narrow_cells(g, x + 1, y)

\* AsciiNarrow: the lines of the rows y .. height-1
RECURSIVE narrow_rows(_, _)
narrow_rows(g, y) ==
    IF y >= g.height THEN ""
    ELSE "|" \o narrow_cells(g, 0, y) \o "\n" \o narrow_rows(g, y + 1)

\* AsciiNarrow::format.  width * 2 - 1 is a usize: with width 0 the
\* subtraction overflows.  A build with overflow checks panics there; one
\* without them wraps to the greatest usize and panics in repeat, which
\* cannot allocate that many bytes.  Either way the call returns no text.
AsciiNarrow_format(g) ==
    IF g.width * 2 - 1 < 0
    THEN [panic |-> TRUE, text |-> ""]
    ELSE [panic |-> FALSE,
          text |-> " " \o repeat("_", g.width * 2 - 1) \o " " \o "\n"
                   \o narrow_rows(g, 0)]

\* the bottom line of AsciiBroad with the test of SOUTH inverted
RECURSIVE broad_bottom_inverted(_, _, _)
broad_bottom_inverted(g, x, y) ==
    IF x >= g.width THEN ""
    ELSE (IF is_carved(g, <<x, y>>, SOUTH) THEN "---" ELSE "   ") \o "+"
         \o broad_bottom_inverted(g, x + 1, y)

\* AsciiBroad: what the cells x .. width-1 add to top_line
RECURSIVE broad_top(_, _, _)
broad_top(g, x, y) ==
    IF x >= g.width THEN ""
    ELSE "   " \o (IF is_carved(g, <<x, y>>, EAST) THEN " " ELSE "|")
         \o broad_top(g, x + 1, y)

\* AsciiBroad: what the cells x .. width-1 add to bottom_line
RECURSIVE broad_bottom(_, _, _)
broad_bottom(g, x, y) ==
    IF x >= g.width THEN ""
    ELSE (IF is_carved(g, <<x, y>>, SOUTH) THEN "   " ELSE "---") \o "+"
         \o broad_bottom(g, x + 1, y)

\* AsciiBroad: the lines of the rows y .. height-1; the two lines of a row
\* are pushed at its last cell, so a row without cells pushes nothing
RECURSIVE broad_rows(_, _)
broad_rows(g, y) ==
    IF y >= g.height THEN ""
    ELSE (IF g.width >= 1
          THEN "|" \o broad_top(g, 0, y) \o "\n"
               \o "+" \o broad_bottom(g, 0, y) \o "\n"
          ELSE "")
         \o broad_rows(g, y + 1)

\* AsciiBroad::format
AsciiBroad_format(g) ==
    [panic |-> FALSE,
     text |-> "+" \o repeat("---+", g.width) \o "\n" \o broad_rows(g, 0)]

\* Formatter::format
format(f, g) ==
    IF f = AsciiNarrow THEN AsciiNarrow_format(g) ELSE AsciiBroad_format(g)

(***************************************************************************)
(* Saveable for StringWrapper.  The environment decides whether each of    *)
(* the three I/O calls succeeds.                                           *)
(***************************************************************************)
\* the paths given to save: one relative, one absolute
Paths == {[absolute |-> FALSE, name |-> "maze.txt"],
          [absolute |-> TRUE, name |-> "/tmp/maze.txt"]}

\* what std::env::current_dir returns when it succeeds
CurrentDir == "/cwd"

\* PathBuf::join: an absolute path replaces the directory
join(dir, path) ==
    IF path.absolute THEN path.name ELSE dir \o "/" \o path.name

\* the outcomes of current_dir, File::create and write_all
Envs == [current_dir : BOOLEAN, create : BOOLEAN, write_all : BOOLEAN]

\* the text of an io::Error
Why == "os error"

MazeSaveError(reason) == [kind |-> "Err", msg |-> reason]

SaveOk(msg) == [kind |-> "Ok", msg |-> msg]

\* save that does not look at the result of write_all
save_write_unchecked(text, path, env) ==
    IF ~env.current_dir
    THEN [result |-> MazeSaveError("Couldn't find path to current dir: "
                                   \o Why),
          io |-> <<<<"current_dir", FALSE>>>>,
          file |-> None]
    ELSE LET full == join(CurrentDir, path) IN
         IF ~env.create
         THEN [result |-> MazeSaveError("Couldn't create " \o full \o ": "
                                        \o Why),
               io |-> <<<<"current_dir", TRUE>>, <<"create", FALSE>>>>,
               file |-> None]
         ELSE [result |-> SaveOk("Maze was successfully written to a file: "
                                 \o full),
               io |-> <<<<"current_dir", TRUE>>, <<"create", TRUE>>,
                        <<"write_all", env.write_all>>>>,
               file |-> Some(IF env.write_all THEN text ELSE "")]

\* StringWrapper::save: what it returns, the I/O calls it made with their
\* outcomes, and the file at the path afterwards (None: no file).  A
\* write_all that fails leaves the created file without the text.
save(text, path, env) ==
    IF ~env.current_dir
    THEN [result |-> MazeSaveError("Couldn't find path to current dir: "
                                   \o Why),
          io |-> <<<<"current_dir", FALSE>>>>,
          file |-> None]
    ELSE LET full == join(CurrentDir, path) IN
         IF ~env.create
         THEN [result |-> MazeSaveError("Couldn't create " \o full \o ": "
                                        \o Why),
               io |-> <<<<"current_dir", TRUE>>, <<"create", FALSE>>>>,
               file |-> None]
         ELSE IF ~env.write_all
         THEN [result |-> MazeSaveError("Couldn't write to " \o full \o ": "
                                        \o Why),
               io |-> <<<<"current_dir", TRUE>>, <<"create", TRUE>>,
                        <<"write_all", FALSE>>>>,
               file |-> Some("")]
         ELSE [result |-> SaveOk("Maze was successfully written to a file: "
                                 \o full),
               io |-> <<<<"current_dir", TRUE>>, <<"create", TRUE>>,
                        <<"write_all", TRUE>>>>,
               file |-> Some(text)]

(***************************************************************************)
(* The pathfinder.  The cells of the maze are the nodes, a carved passage  *)
(* is an edge; costs is the Cost annotation of the cells that have one.    *)
(***************************************************************************)
MaxCost == 2

\* the Cost annotations of a maze: none, or one cell with a cost above 1
CostMaps(g) ==
    {[c \in {} |-> 1]}
    \cup {[c \in {a} |-> k] : a \in Coords(g), k \in 2..MaxCost}

\* a step that costs nothing where no Cost is given
step_cost_zero(costs, c) == IF c \in DOMAIN costs THEN costs[c] ELSE 0

\* the cost of the step into the cell c: its Cost, 1 without one
step_cost(costs, c) == IF c \in DOMAIN costs THEN costs[c] ELSE 1

\* successors that never go west
successors_no_west(g, c, costs) ==
    {<<Neighbour(c, d), step_cost(costs, Neighbour(c, d))>> :
        d \in CellAt(g, c) \ {WEST}}

\* MazePath::successors: the cells a passage of c leads to, each with the
\* cost of the step
successors(g, c, costs) ==
    {<<Neighbour(c, d), step_cost(costs, Neighbour(c, d))>> :
        d \in CellAt(g, c)}

Abs(n) == IF n < 0 THEN -n ELSE n

\* MazePath::distance: the heuristic of the search
distance(a, b) == Abs(a[1] - b[1]) + Abs(a[2] - b[2])

\* the loop of astar expanding the node with the greatest estimate first
RECURSIVE astar_loop_worst_first(_, _, _, _, _)
astar_loop_worst_first(g, goal, costs, open, closed) ==
    IF open = {} THEN None
    ELSE LET best == CHOOSE n \in open : \A m \in open :
                         n.cost + distance(n.node, goal)
                             >= m.cost + distance(m.node, goal)
         IN IF best.node = goal
            THEN Some([path |-> best.path, cost |-> best.cost])
            ELSE IF best.node \in closed
            THEN astar_loop_worst_first(g, goal, costs, open \ {best}, closed)
            ELSE astar_loop_worst_first(g, goal, costs,
                     (open \ {best})
                     \cup {[node |-> sc[1], cost |-> best.cost + sc[2],
                            path |-> Append(best.path, sc[1])] :
                              sc \in {t \in successors(g, best.node, costs) :
                                         t[1] \notin closed}},
                     closed \cup {best.node})

\* the loop of astar: open holds the nodes to expand with the cost and the
\* path they were reached by, closed the nodes expanded
RECURSIVE astar_loop(_, _, _, _, _)
astar_loop(g, goal, costs, open, closed) ==
    IF open = {} THEN None
    ELSE LET best == CHOOSE n \in open : \A m \in open :
                         n.cost + distance(n.node, goal)
                             <= m.cost + distance(m.node, goal)
         IN IF best.node = goal
            THEN Some([path |-> best.path, cost |-> best.cost])
            ELSE IF best.node \in closed
            THEN astar_loop(g, goal, costs, open \ {best}, closed)
            ELSE astar_loop(g, goal, costs,
                     (open \ {best})
                     \cup {[node |-> sc[1], cost |-> best.cost + sc[2],
                            path |-> Append(best.path, sc[1])] :
                              sc \in {t \in successors(g, best.node, costs) :
                                         t[1] \notin closed}},
                     closed \cup {best.node})

\* astar(start, successors, distance, p == goal): a path of least cost with
\* its cost, None when the goal is not reached
astar(g, start, goal, costs) ==
    astar_loop(g, goal, costs,
               {[node |-> start, cost |-> 0, path |-> <<start>>]}, {})


\* Cell::is_end: a cell with one passage
is_end(cell) == Cardinality(cell) = 1

\* find_maze_ends_paths that marks every cell with a passage as an end
find_maze_ends_paths_any_passage(g, start, costs) ==
    LET ends_ == {c \in Coords(g) : CellAt(g, c) # {}}
        goals == {c \in ends_ : astar(g, start, c, costs) # None}
    IN [key \in {<<start, c>> : c \in goals} |->
           The(astar(g, start, key[2], costs))]

\* find_maze_ends_paths with the start cell start: the paths map, keyed by
\* (start, goal); a goal astar finds no path to gets no entry
find_maze_ends_paths(g, start, costs) ==
    LET ends_ == {c \in Coords(g) : is_end(CellAt(g, c))}
        goals == {c \in ends_ : astar(g, start, c, costs) # None}
    IN [key \in {<<start, c>> : c \in goals} |->
           The(astar(g, start, key[2], costs))]

\* contains_path_to_end that looks at the entry of any end
contains_path_to_end_any_end(paths, goal, path_coord) ==
    LET hits == DOMAIN paths
    IN IF hits = {} THEN {FALSE}
       ELSE {Contains(paths[k].path, path_coord) : k \in hits}

\* MazeEndsPaths::contains_path_to_end: find takes the first entry, in the
\* iteration order of the map, whose end is goal; the values are what the
\* call can return, one for each entry that can come first
contains_path_to_end(paths, goal, path_coord) ==
    LET hits == {k \in DOMAIN paths : k[2] = goal}
    IN IF hits = {} THEN {FALSE}
       ELSE {Contains(paths[k].path, path_coord) : k \in hits}

(***************************************************************************)
(* The state.                                                              *)
(***************************************************************************)
VARIABLES
    builder,        \* the configured OrthogonalMazeBuilder, None without one
    pc,             \* where the program is
    grid,           \* the Grid of the maze
    rng,            \* the StdRng of the build
    stack,          \* the calls of carve_passages_from in progress
    generate_calls, \* how often generate was called by the build
    entered,        \* the cells the generation has carved into, in order
    result,         \* what build returned
    last,           \* the last call of a Grid operation and its result
    script,         \* the carve calls a fixture still has to make
    thread_rng,     \* the thread-local generator, None until its first use
    visited,        \* the visited vector of validate
    vstack,         \* the calls of visit in progress
    valid,          \* what the last validate returned
    prev,           \* what the previous build and validate returned
    it,             \* the OrthogonalMazeIterator in use
    yielded,        \* what the iterator has returned so far
    ends_result,    \* what the last ends() returned
    into,           \* the OrthogonalMazeIntoIterator in use, None without one
    into_yielded,   \* what the consuming iterator has returned so far
    into_done,      \* whether the consuming iterator has returned None
    formatted,      \* the formatter used and the text it returned, or None
    saved,          \* the path given to save and what save returned, or None
    io,             \* the I/O calls save has made, each with its outcome
    file,           \* the text of the file at the path, None without a file
    found,          \* the last start-to-goal search and its result, or None
    ends_paths,     \* MazeEndsPaths of the last all-ends search, or None
    returned,       \* what the calls on a shared maze have returned, by method
    reads,          \* how many calls on the shared maze have been made
    invoked,        \* the last all-ends run: the Start cells it saw, or None
    maze_ends,      \* the cells that carry the MazeEnd marker
    queried         \* the last contains_path_to_end call and its result

vars == <<builder, pc, grid, rng, stack, generate_calls, entered, result, last,
          script,
          thread_rng, visited, vstack, valid, prev, it, yielded, ends_result,
          into, into_yielded, into_done, formatted, saved, io, file, found,
          ends_paths, returned, reads, invoked, maze_ends, queried>>

buildVars == <<builder, rng, stack, generate_calls, entered, result>>

mazeVars == <<thread_rng, visited, vstack, valid, prev, it, yielded,
              ends_result>>

\* what the consumers of a finished maze keep
readVars == <<returned, reads>>

\* what the all-ends system and its callers keep besides ends_paths
ecsVars == <<invoked, maze_ends, queried>>

useVars == <<into, into_yielded, into_done, formatted, saved, io, file,
            found, ends_paths, returned, reads, invoked, maze_ends, queried>>

\* the sizes of the grids; a zero dimension is permitted
Dims == {d \in (0..MaxWidth) \X (0..MaxHeight) : d[1] * d[2] <= MaxCells}

Seeds == 0..(MaxSeed - 1)

\* the start coordinates given to a builder of size d: those of the grid
\* and those one column or one row beyond it
StartCoords(d) == (0..d[1]) \X (0..d[2])

NoPrev == [grid |-> None, valid |-> None, visited |-> None]

NoIter == [active |-> FALSE, index |-> 0, done |-> FALSE]

NoCall == [op |-> "None", coords |-> <<0, 0>>, dir |-> NORTH, ok |-> FALSE,
           ret |-> None]

NoneReturned == [is_valid |-> {}, iter |-> {}, ends |-> {}, format |-> {}]

NoResult == [kind |-> "None", msg |-> <<>>]

FreeCalls == [free |-> TRUE, calls |-> <<>>]

Scripted(calls) == [free |-> FALSE, calls |-> calls]

InitMaze ==
    /\ thread_rng = None
    /\ visited = <<>>
    /\ vstack = <<>>
    /\ valid = None
    /\ prev = NoPrev
    /\ it = NoIter
    /\ yielded = <<>>
    /\ ends_result = None
    /\ into = None
    /\ into_yielded = <<>>
    /\ into_done = FALSE
    /\ formatted = None
    /\ saved = None
    /\ io = <<>>
    /\ file = None
    /\ found = None
    /\ ends_paths = None
    /\ returned = NoneReturned
    /\ reads = 0
    /\ invoked = None
    /\ maze_ends = {}
    /\ queried = None

\* a builder after its setters: any size, algorithm, start and seed
Init ==
    /\ \E d \in Dims, a \in Algorithms :
         \E sd \in {None} \cup {Some(n) : n \in Seeds},
            s \in {None} \cup {Some(c) : c \in StartCoords(d)} :
           builder = Some([width |-> d[1], height |-> d[2], algorithm |-> a,
                           start_coords |-> s, seed |-> sd])
    /\ pc = "builder"
    /\ grid = None
    /\ rng = None
    /\ stack = <<>>
    /\ generate_calls = 0
    /\ entered = <<>>
    /\ result = NoResult
    /\ last = NoCall
    /\ script = FreeCalls
    /\ InitMaze

(***************************************************************************)
(* OrthogonalMazeBuilder::build                                            *)
(***************************************************************************)
Ok == [kind |-> "Ok", msg |-> <<>>]

Err(msg) == [kind |-> "Err", msg |-> msg]

\* no return value: the build ended in a contract violation
Panic == [kind |-> "Panic", msg |-> <<>>]

OsStates == 0..(RngStates - 1)

\* the states the thread-local generator can be in at its first use
ThreadStates == 0..(ThreadSeeds - 1)

\* build() from its call to the call of generate or to its Err
Build ==
    /\ pc = "builder"
    /\ \E os \in OsStates :
         LET b == build(The(builder), os) IN
         IF b.err # None
         THEN /\ result' = Err(The(b.err))
              /\ pc' = "failed"
              /\ grid' = b.grid
              /\ rng' = b.rng
              /\ stack' = <<>>
              /\ generate_calls' = generate_calls + b.calls
         ELSE IF The(builder).algorithm = RecursiveBacktracking
         THEN LET g == RecursiveBacktracking_generate(
                           b.grid, The(builder).start_coords, b.rng) IN
              /\ result' = NoResult
              /\ pc' = "generating"
              /\ grid' = g.grid
              /\ rng' = g.rng
              /\ stack' = g.stack
              /\ generate_calls' = generate_calls + b.calls
         ELSE LET g == RecursiveDivision_generate(b.grid, b.rng) IN
              /\ result' = Ok
              /\ pc' = "maze"
              /\ grid' = g.grid
              /\ rng' = g.rng
              /\ stack' = <<>>
              /\ generate_calls' = generate_calls + b.calls
    /\ entered' = <<>>
    /\ UNCHANGED <<builder, last, script>>
    /\ UNCHANGED mazeVars
    /\ UNCHANGED useVars

\* one step of carve_passages_from; build returns Ok(maze) when the
\* outermost call returns, and returns nothing after a contract violation
Generate ==
    /\ pc = "generating"
    /\ LET n == carve_passages_from(grid, stack, rng) IN
       /\ grid' = n.grid
       /\ stack' = n.stack
       /\ rng' = n.rng
       /\ pc' = IF n.violation THEN "panicked"
                ELSE IF n.stack = <<>> THEN "maze" ELSE "generating"
       /\ result' = IF n.violation THEN Panic
                    ELSE IF n.stack = <<>> THEN Ok ELSE result
       /\ entered' = IF Len(n.stack) > Len(stack)
                     THEN Append(entered, Top(n.stack).coords)
                     ELSE entered
    /\ UNCHANGED <<builder, generate_calls, last, script>>
    /\ UNCHANGED mazeVars
    /\ UNCHANGED useVars

\* a second builder with the same configuration and seed is built
Rebuild ==
    /\ pc \in {"maze", "failed"}
    /\ builder # None
    /\ The(builder).seed # None
    /\ prev = NoPrev
    /\ ~it.active /\ ends_result = None
    /\ prev' = [prev EXCEPT !.grid = Some(grid)]
    /\ pc' = "builder"
    /\ grid' = None
    /\ rng' = None
    /\ result' = NoResult
    /\ generate_calls' = 0
    /\ entered' = <<>>
    /\ UNCHANGED <<builder, stack, last, script, thread_rng, visited, vstack,
                   valid, it, yielded, ends_result>>
    /\ UNCHANGED useVars

(***************************************************************************)
(* Grid operations called directly, as the tests do.                       *)
(***************************************************************************)
Call(op, c, d, r) ==
    [op |-> op, coords |-> c, dir |-> d, ok |-> r.ok,
     ret |-> IF r.ok THEN Some(r.coords) ELSE None]

CarvePassage(c, d) ==
    /\ pc = "carving"
    /\ \/ script.free /\ script' = script
       \/ /\ ~script.free /\ script.calls # <<>>
          /\ <<c, d>> = Head(script.calls)
          /\ script' = Scripted(Tail(script.calls))
    /\ LET r == carve_passage(grid, c, d) IN
       /\ grid' = r.grid
       /\ last' = Call("carve_passage", c, d, r)
    /\ UNCHANGED pc
    /\ UNCHANGED buildVars
    /\ UNCHANGED mazeVars
    /\ UNCHANGED useVars

GetNextCellCoords(c, d) ==
    /\ pc = "carving"
    /\ script.free
    /\ last' = Call("get_next_cell_coords", c, d,
                    get_next_cell_coords(grid, c, d))
    /\ UNCHANGED <<pc, grid, script>>
    /\ UNCHANGED buildVars
    /\ UNCHANGED mazeVars
    /\ UNCHANGED useVars

\* OrthogonalMaze { grid }
Wrap ==
    /\ pc = "carving"
    /\ script.calls = <<>>
    /\ pc' = "maze"
    /\ last' = NoCall
    /\ UNCHANGED <<grid, script>>
    /\ UNCHANGED buildVars
    /\ UNCHANGED mazeVars
    /\ UNCHANGED useVars

(***************************************************************************)
(* Operations of the finished maze.                                        *)
(***************************************************************************)
\* is_valid(): validate up to the first loop of visit; what iter() and
\* ends() returned before is dropped
IsValid ==
    /\ pc = "maze"
    /\ prev = NoPrev
    /\ \E t \in (IF thread_rng = None THEN ThreadStates ELSE thread_rng) :
         LET v == validate(grid, t) IN
         /\ visited' = v.visited
         /\ vstack' = v.stack
         /\ thread_rng' = Some(v.rng)
    /\ prev' = IF valid = None THEN prev
               ELSE [prev EXCEPT !.valid = valid, !.visited = Some(visited)]
    /\ valid' = None
    /\ pc' = "validating"
    /\ it' = NoIter
    /\ yielded' = <<>>
    /\ ends_result' = None
    /\ UNCHANGED <<grid, last, script>>
    /\ UNCHANGED buildVars
    /\ UNCHANGED useVars

\* one step of visit; validate returns when the outermost call returns
Visit ==
    /\ pc = "validating"
    /\ LET n == visit(grid, visited, vstack, The(thread_rng)) IN
       /\ visited' = n.visited
       /\ vstack' = n.stack
       /\ thread_rng' = Some(n.rng)
       /\ pc' = IF n.stack = <<>> THEN "maze" ELSE "validating"
       /\ valid' = IF n.stack = <<>>
                   THEN Some(validate_result(grid, n.visited))
                   ELSE valid
    /\ UNCHANGED <<grid, last, script, prev, it, yielded, ends_result>>
    /\ UNCHANGED buildVars
    /\ UNCHANGED useVars

\* iter()
Iter ==
    /\ pc = "maze"
    /\ prev.grid = None
    /\ it' = [active |-> TRUE, index |-> 0, done |-> FALSE]
    /\ yielded' = <<>>
    /\ UNCHANGED <<pc, grid, last, script, thread_rng, visited, vstack, valid,
                   prev, ends_result>>
    /\ UNCHANGED buildVars
    /\ UNCHANGED useVars

\* next() of the iterator
IterNext ==
    /\ pc = "maze"
    /\ it.active
    /\ ~it.done
    /\ LET n == iter_next(grid, it.index) IN
       /\ it' = [active |-> TRUE, index |-> n.index, done |-> n.item = None]
       /\ yielded' = IF n.item = None THEN yielded
                     ELSE Append(yielded, The(n.item))
    /\ UNCHANGED <<pc, grid, last, script, thread_rng, visited, vstack, valid,
                   prev, ends_result>>
    /\ UNCHANGED buildVars
    /\ UNCHANGED useVars

\* ends()
Ends ==
    /\ pc = "maze"
    /\ prev.grid = None
    /\ ends_result = None
    /\ ends_result' = Some(ends(grid))
    /\ UNCHANGED <<pc, grid, last, script, thread_rng, visited, vstack, valid,
                   prev, it, yielded>>
    /\ UNCHANGED buildVars
    /\ UNCHANGED useVars

MazeOps == IsValid \/ Visit \/ Iter \/ IterNext \/ Ends

Next == Build \/ Generate \/ Rebuild \/ IsValid \/ Visit \/ Iter \/ IterNext
        \/ Ends

Spec == Init /\ [][Next]_vars

\* build() at its call of RecursiveBacktracking::generate, for any builder
\* whose checks passed: the grid is allocated, the generator seeded and the
\* first frame of carve_passages_from is on the stack
InitGen ==
    /\ \E d \in Dims, os \in OsStates :
         \E sd \in {None} \cup {Some(n) : n \in Seeds},
            s \in {None} \cup {Some(c) : c \in StartCoords(d)} :
           LET cfg == [width |-> d[1], height |-> d[2],
                       algorithm |-> RecursiveBacktracking,
                       start_coords |-> s, seed |-> sd]
               b == build(cfg, os)
           IN  /\ b.err = None
               /\ LET g == RecursiveBacktracking_generate(b.grid, s, b.rng) IN
                  /\ builder = Some(cfg)
                  /\ grid = g.grid
                  /\ rng = g.rng
                  /\ stack = g.stack
                  /\ generate_calls = b.calls
    /\ pc = "generating"
    /\ entered = <<>>
    /\ result = NoResult
    /\ last = NoCall
    /\ script = FreeCalls
    /\ InitMaze

\* The generation alone.  build() runs on one thread from its call to its
\* return: a step of the generation that can be taken is taken.
NextGen == Generate

SpecGen == InitGen /\ [][NextGen]_vars /\ WF_vars(Generate)

(***************************************************************************)
(* A grid carved by hand: any carve calls on a small grid, or the carve    *)
(* calls of the 4 x 4 fixture of the tests.                                *)
(***************************************************************************)
\* generate_valid_maze of the tests
ValidFixture ==
    << <<<<0, 0>>, SOUTH>>, <<<<0, 1>>, EAST>>, <<<<0, 2>>, EAST>>,
       <<<<0, 2>>, SOUTH>>, <<<<0, 3>>, EAST>>,
       <<<<1, 0>>, EAST>>, <<<<1, 1>>, EAST>>, <<<<1, 1>>, SOUTH>>,
       <<<<1, 2>>, EAST>>, <<<<1, 3>>, EAST>>,
       <<<<2, 0>>, EAST>>, <<<<2, 2>>, EAST>>, <<<<2, 3>>, EAST>>,
       <<<<3, 1>>, NORTH>>, <<<<3, 1>>, SOUTH>> >>

\* generate_invalid_maze of the tests
InvalidFixture ==
    << <<<<0, 0>>, SOUTH>>, <<<<0, 1>>, EAST>>, <<<<0, 2>>, EAST>>,
       <<<<0, 2>>, SOUTH>>, <<<<0, 3>>, EAST>>,
       <<<<1, 1>>, EAST>>, <<<<1, 1>>, NORTH>>,
       <<<<1, 2>>, EAST>>, <<<<1, 3>>, EAST>>,
       <<<<2, 0>>, EAST>>, <<<<2, 2>>, EAST>>, <<<<2, 3>>, EAST>>,
       <<<<3, 1>>, NORTH>>, <<<<3, 1>>, SOUTH>> >>

InitGrid ==
    /\ builder = None
    /\ pc = "carving"
    /\ \/ /\ script = FreeCalls
          /\ \E d \in Dims : grid = Grid_new(d[1], d[2])
       \/ /\ script \in {Scripted(ValidFixture), Scripted(InvalidFixture)}
          /\ grid = Grid_new(4, 4)
    /\ rng = None
    /\ stack = <<>>
    /\ generate_calls = 0
    /\ entered = <<>>
    /\ result = NoResult
    /\ last = NoCall
    /\ InitMaze

NextGrid ==
    \/ \E c \in Coords(grid), d \in Directions : CarvePassage(c, d)
    \/ \E c \in Coords(grid), d \in Directions : GetNextCellCoords(c, d)
    \/ Wrap
    \/ IsValid
    \/ Visit
    \/ Iter
    \/ IterNext
    \/ Ends

SpecGrid == InitGrid /\ [][NextGrid]_vars

(***************************************************************************)
(* The consumers of a finished maze: the consuming iterator.               *)
(***************************************************************************)
Unused ==
    /\ into = None /\ formatted = None /\ saved = None
    /\ found = None /\ ends_paths = None

\* maze.clone().into_iter()
IntoIter ==
    /\ pc = "maze"
    /\ Unused
    /\ valid = None
    /\ into' = Some(into_iter(grid))
    /\ into_yielded' = <<>>
    /\ into_done' = FALSE
    /\ UNCHANGED <<pc, grid, last, script, formatted, saved, io, file, found,
                   ends_paths>>
    /\ UNCHANGED buildVars
    /\ UNCHANGED mazeVars
    /\ UNCHANGED readVars
    /\ UNCHANGED ecsVars

\* next() of the consuming iterator
IntoIterNext ==
    /\ pc = "maze"
    /\ into # None
    /\ ~into_done
    /\ LET n == into_iter_next(The(into)) IN
       /\ into' = Some(n.iter)
       /\ into_yielded' = IF n.item = None THEN into_yielded
                          ELSE Append(into_yielded, The(n.item))
       /\ into_done' = (n.item = None)
    /\ UNCHANGED <<pc, grid, last, script, formatted, saved, io, file, found,
                   ends_paths>>
    /\ UNCHANGED buildVars
    /\ UNCHANGED mazeVars
    /\ UNCHANGED readVars
    /\ UNCHANGED ecsVars

\* maze.format(formatter); a panic of the formatter ends the program
Format(f) ==
    /\ pc = "maze"
    /\ Unused
    /\ valid = None
    /\ LET r == format(f, grid) IN
       /\ pc' = IF r.panic THEN "panicked" ELSE pc
       /\ formatted' = IF r.panic THEN None
                       ELSE Some([formatter |-> f, text |-> r.text])
    /\ UNCHANGED <<grid, last, script, into, into_yielded, into_done, saved,
                   io, file, found, ends_paths>>
    /\ UNCHANGED buildVars
    /\ UNCHANGED mazeVars
    /\ UNCHANGED readVars
    /\ UNCHANGED ecsVars

\* maze.save(path, formatter): format, then Saveable::save
Save(f, path) ==
    /\ pc = "maze"
    /\ Unused
    /\ valid = None
    /\ LET r == format(f, grid) IN
       IF r.panic
       THEN /\ pc' = "panicked"
            /\ UNCHANGED <<formatted, saved, io, file>>
       ELSE \E env \in Envs :
              LET sv == save(r.text, path, env) IN
              /\ formatted' = Some([formatter |-> f, text |-> r.text])
              /\ saved' = Some([path |-> path, result |-> sv.result])
              /\ io' = sv.io
              /\ file' = sv.file
              /\ UNCHANGED pc
    /\ UNCHANGED <<grid, last, script, into, into_yielded, into_done, found,
                   ends_paths>>
    /\ UNCHANGED buildVars
    /\ UNCHANGED mazeVars
    /\ UNCHANGED readVars
    /\ UNCHANGED ecsVars

\* the search from the cell marked Start to the cell marked Goal
FindPath(start, goal, costs) ==
    /\ pc = "maze"
    /\ Unused
    /\ valid = None
    /\ found' = Some([start |-> start, goal |-> goal, costs |-> costs,
                      result |-> astar(grid, start, goal, costs)])
    /\ UNCHANGED <<pc, grid, last, script, into, into_yielded, into_done,
                   formatted, saved, io, file, ends_paths>>
    /\ UNCHANGED buildVars
    /\ UNCHANGED mazeVars
    /\ UNCHANGED readVars
    /\ UNCHANGED ecsVars

\* find_maze_ends_paths with one cell marked Start
FindMazeEndsPaths(start, costs) ==
    /\ pc = "maze"
    /\ Unused
    /\ valid = None
    /\ ends_paths' = Some([start |-> start, costs |-> costs,
                           paths |-> find_maze_ends_paths(grid, start,
                                                          costs)])
    /\ UNCHANGED <<pc, grid, last, script, into, into_yielded, into_done,
                   formatted, saved, io, file, found>>
    /\ UNCHANGED buildVars
    /\ UNCHANGED mazeVars
    /\ UNCHANGED readVars
    /\ UNCHANGED ecsVars

NextUse ==
    \/ \E c \in Coords(grid), d \in Directions : CarvePassage(c, d)
    \/ Wrap
    \/ IntoIter
    \/ IntoIterNext
    \/ \E f \in Formatters : Format(f)
    \/ \E f \in Formatters, path \in Paths : Save(f, path)

SpecUse == InitGrid /\ [][NextUse]_vars

\* the searches on a grid carved by hand
NextPath ==
    \/ \E c \in Coords(grid), d \in Directions : CarvePassage(c, d)
    \/ Wrap
    \/ \E start \in Coords(grid), goal \in Coords(grid),
          costs \in CostMaps(grid) : FindPath(start, goal, costs)
    \/ \E start \in Coords(grid), costs \in CostMaps(grid) :
          FindMazeEndsPaths(start, costs)

\* the searches start from a grid without a passage
InitPath == InitGrid /\ script = FreeCalls

SpecPath == InitPath /\ [][NextPath]_vars

(***************************************************************************)
(* A finished maze shared by several readers.  is_valid, iter, ends and    *)
(* format take &self: calls made from different threads run at the same    *)
(* time, one step of one of them after a step of another.  Each call of    *)
(* is_valid runs on a thread of its own, with its own thread-local         *)
(* generator; what a call returns is added to returned.                    *)
(***************************************************************************)
MaxReads == 3

\* the shared mazes have at most this many cells
MaxSharedCells == 4

\* is_valid(): validate up to the first loop of visit
SharedIsValid ==
    /\ pc = "maze"
    /\ reads < MaxReads
    /\ vstack = <<>>
    /\ \E t \in ThreadStates :
         LET v == validate(grid, t) IN
         /\ visited' = v.visited
         /\ vstack' = v.stack
         /\ thread_rng' = Some(v.rng)
    /\ reads' = reads + 1
    /\ UNCHANGED <<pc, grid, last, script, valid, prev, it, yielded,
                   ends_result, into, into_yielded, into_done, formatted,
                   saved, io, file, found, ends_paths, returned>>
    /\ UNCHANGED buildVars
    /\ UNCHANGED ecsVars

\* one step of visit; is_valid returns when the outermost call returns
SharedVisit ==
    /\ pc = "maze"
    /\ vstack # <<>>
    /\ LET n == visit(grid, visited, vstack, The(thread_rng))
           r == validate_result(grid, n.visited)
       IN IF n.stack = <<>>
          THEN /\ visited' = <<>>
               /\ vstack' = <<>>
               /\ thread_rng' = None
               /\ valid' = Some(r)
               /\ returned' = [returned EXCEPT !.is_valid = @ \cup {r}]
          ELSE /\ visited' = n.visited
               /\ vstack' = n.stack
               /\ thread_rng' = Some(n.rng)
               /\ UNCHANGED <<valid, returned>>
    /\ UNCHANGED <<pc, grid, last, script, prev, it, yielded, ends_result,
                   into, into_yielded, into_done, formatted, saved, io, file,
                   found, ends_paths, reads>>
    /\ UNCHANGED buildVars
    /\ UNCHANGED ecsVars

\* iter()
SharedIter ==
    /\ pc = "maze"
    /\ reads < MaxReads
    /\ ~it.active \/ it.done
    /\ it' = [active |-> TRUE, index |-> 0, done |-> FALSE]
    /\ yielded' = <<>>
    /\ reads' = reads + 1
    /\ UNCHANGED <<pc, grid, last, script, thread_rng, visited, vstack, valid,
                   prev, ends_result, into, into_yielded, into_done,
                   formatted, saved, io, file, found, ends_paths, returned>>
    /\ UNCHANGED buildVars
    /\ UNCHANGED ecsVars

\* next() of the iterator; the items are what the caller collects
SharedIterNext ==
    /\ pc = "maze"
    /\ it.active
    /\ ~it.done
    /\ LET n == iter_next(grid, it.index) IN
       /\ it' = [active |-> TRUE, index |-> n.index, done |-> n.item = None]
       /\ yielded' = IF n.item = None THEN yielded
                     ELSE Append(yielded, The(n.item))
       /\ returned' = IF n.item = None
                      THEN [returned EXCEPT !.iter = @ \cup {yielded}]
                      ELSE returned
    /\ UNCHANGED <<pc, grid, last, script, thread_rng, visited, vstack, valid,
                   prev, ends_result, into, into_yielded, into_done,
                   formatted, saved, io, file, found, ends_paths, reads>>
    /\ UNCHANGED buildVars
    /\ UNCHANGED ecsVars

\* ends() that filters what is left of the iterator in use
SharedEnds_iterator_in_use ==
    /\ pc = "maze"
    /\ reads < MaxReads
    /\ LET e == SelectSeq(collect(grid, it.index), IsEnd) IN
       /\ ends_result' = Some(e)
       /\ returned' = [returned EXCEPT !.ends = @ \cup {e}]
    /\ reads' = reads + 1
    /\ UNCHANGED <<pc, grid, last, script, thread_rng, visited, vstack, valid,
                   prev, it, yielded, into, into_yielded, into_done,
                   formatted, saved, io, file, found, ends_paths>>
    /\ UNCHANGED buildVars
    /\ UNCHANGED ecsVars

\* ends(): an iterator of its own, filtered and collected
SharedEnds ==
    /\ pc = "maze"
    /\ reads < MaxReads
    /\ LET e == ends(grid) IN
       /\ ends_result' = Some(e)
       /\ returned' = [returned EXCEPT !.ends = @ \cup {e}]
    /\ reads' = reads + 1
    /\ UNCHANGED <<pc, grid, last, script, thread_rng, visited, vstack, valid,
                   prev, it, yielded, into, into_yielded, into_done,
                   formatted, saved, io, file, found, ends_paths>>
    /\ UNCHANGED buildVars
    /\ UNCHANGED ecsVars

\* format(formatter); a panic of the formatter ends the program
SharedFormat(f) ==
    /\ pc = "maze"
    /\ reads < MaxReads
    /\ LET r == format(f, grid)
           t == [formatter |-> f, text |-> r.text]
       IN IF r.panic
          THEN /\ pc' = "panicked"
               /\ UNCHANGED <<formatted, returned>>
          ELSE /\ formatted' = Some(t)
               /\ returned' = [returned EXCEPT !.format = @ \cup {t}]
               /\ UNCHANGED pc
    /\ reads' = reads + 1
    /\ UNCHANGED <<grid, last, script, thread_rng, visited, vstack, valid,
                   prev, it, yielded, ends_result, into, into_yielded,
                   into_done, saved, io, file, found, ends_paths>>
    /\ UNCHANGED buildVars
    /\ UNCHANGED ecsVars

NextRead ==
    \/ \E c \in Coords(grid), d \in Directions : CarvePassage(c, d)
    \/ Wrap
    \/ SharedIsValid
    \/ SharedVisit
    \/ SharedIter
    \/ SharedIterNext
    \/ SharedEnds
    \/ \E f \in Formatters : SharedFormat(f)

\* the maze is made by hand, then shared
InitRead == InitPath /\ grid.width * grid.height <= MaxSharedCells

SpecRead == InitRead /\ [][NextRead]_vars

(***************************************************************************)
(* The all-ends system run on demand, any number of times, on the cells of *)
(* one maze.  The caller marks cells as Start between the runs: a run sees *)
(* the set S of cells marked.  The commands of a run (the MazeEnd markers  *)
(* and the new resource) are applied when the run ends.                    *)
(***************************************************************************)
\* the cells a caller marks as Start: none, one or two
StartSets(g) == {S \in SUBSET Coords(g) : Cardinality(S) <= 2}

\* MazeEndsPaths::default(), the resource before the first run
NoPaths == [key \in {} |-> [path |-> <<>>, cost |-> 0]]

\* the paths of the stored resource
StoredPaths == IF ends_paths = None THEN NoPaths ELSE The(ends_paths).paths

\* a run that saw the cells S marked Start; replaced is the start of the
\* stored resource the run has replaced, None when it has replaced none
Run(S) ==
    [starts |-> S,
     replaced |-> IF Cardinality(S) = 1 /\ ends_paths # None
                  THEN Some(The(ends_paths).start) ELSE None]

\* a run that adds its entries to those of the stored resource
InvokeFindMazeEndsPaths_extend(S, costs) ==
    /\ pc = "maze"
    /\ invoked' = Some(Run(S))
    /\ IF Cardinality(S) # 1
       THEN UNCHANGED <<ends_paths, maze_ends>>
       ELSE LET start == The(S)
                new == find_maze_ends_paths(grid, start, costs)
            IN /\ maze_ends' = maze_ends \cup
                      {c \in Coords(grid) : is_end(CellAt(grid, c))}
               /\ ends_paths' = Some([start |-> start, costs |-> costs,
                                      paths |-> new @@ StoredPaths])
    /\ queried' = None
    /\ UNCHANGED <<pc, grid, last, script, into, into_yielded, into_done,
                   formatted, saved, io, file, found>>
    /\ UNCHANGED buildVars
    /\ UNCHANGED mazeVars
    /\ UNCHANGED readVars

\* a run that marks the ends before it looks for the start
InvokeFindMazeEndsPaths_mark_first(S, costs) ==
    /\ pc = "maze"
    /\ invoked' = Some(Run(S))
    /\ maze_ends' = maze_ends \cup
           {c \in Coords(grid) : is_end(CellAt(grid, c))}
    /\ IF Cardinality(S) # 1
       THEN UNCHANGED ends_paths
       ELSE LET start == The(S) IN
            ends_paths' = Some([start |-> start, costs |-> costs,
                                paths |-> find_maze_ends_paths(grid, start,
                                                               costs)])
    /\ queried' = None
    /\ UNCHANGED <<pc, grid, last, script, into, into_yielded, into_done,
                   formatted, saved, io, file, found>>
    /\ UNCHANGED buildVars
    /\ UNCHANGED mazeVars
    /\ UNCHANGED readVars

\* find_maze_ends_paths run with the cells S marked Start: it returns at
\* once unless S is one cell; else it marks the ends and replaces the
\* resource
InvokeFindMazeEndsPaths(S, costs) ==
    /\ pc = "maze"
    /\ invoked' = Some(Run(S))
    /\ IF Cardinality(S) # 1
       THEN UNCHANGED <<ends_paths, maze_ends>>
       ELSE LET start == The(S) IN
            /\ maze_ends' = maze_ends \cup
                   {c \in Coords(grid) : is_end(CellAt(grid, c))}
            /\ ends_paths' = Some([start |-> start, costs |-> costs,
                                   paths |-> find_maze_ends_paths(grid, start,
                                                                  costs)])
    /\ queried' = None
    /\ UNCHANGED <<pc, grid, last, script, into, into_yielded, into_done,
                   formatted, saved, io, file, found>>
    /\ UNCHANGED buildVars
    /\ UNCHANGED mazeVars
    /\ UNCHANGED readVars

\* contains_path_to_end on the stored resource
ContainsPathToEnd(goal, path_coord) ==
    /\ pc = "maze"
    /\ \E r \in contains_path_to_end(StoredPaths, goal, path_coord) :
         queried' = Some([goal |-> goal, path_coord |-> path_coord,
                          result |-> r])
    /\ UNCHANGED <<pc, grid, last, script, into, into_yielded, into_done,
                   formatted, saved, io, file, found, ends_paths, invoked,
                   maze_ends>>
    /\ UNCHANGED buildVars
    /\ UNCHANGED mazeVars
    /\ UNCHANGED readVars

\* no cell has a Cost
NoCosts == [c \in {} |-> 1]

\* the runs are made on cells without a Cost
NextEnds ==
    \/ \E c \in Coords(grid), d \in Directions : CarvePassage(c, d)
    \/ Wrap
    \/ \E S \in StartSets(grid) : InvokeFindMazeEndsPaths(S, NoCosts)
    \/ \E goal \in Coords(grid), path_coord \in Coords(grid) :
          ContainsPathToEnd(goal, path_coord)

SpecEnds == InitRead /\ [][NextEnds]_vars

(***************************************************************************)
(* Reachability through carved passages, by a fixpoint that owes nothing   *)
(* to validate.                                                            *)
(***************************************************************************)
HasNeighbour(g, c, d) ==
    \/ d = NORTH /\ c[2] > 0
    \/ d = SOUTH /\ c[2] + 1 < g.height
    \/ d = WEST /\ c[1] > 0
    \/ d = EAST /\ c[1] + 1 < g.width

Moves(g, S) ==
    S \cup {n \in Coords(g) :
               \E c \in S \cap Coords(g), d \in Directions :
                   /\ d \in CellAt(g, c)
                   /\ n = Neighbour(c, d)}

RECURSIVE Closure(_, _)
Closure(g, S) ==
    LET T == Moves(g, S) IN IF T = S THEN S ELSE Closure(g, T)

Reachable(g) == Closure(g, {<<0, 0>>})

AllReachable(g) == Coords(g) \subseteq Reachable(g)

Range(seq) == {seq[i] : i \in DOMAIN seq}

NoDuplicates(seq) == \A i, j \in DOMAIN seq : seq[i] = seq[j] => i = j

HasGrid ==
    pc \in {"carving", "generating", "maze", "validating", "failed",
            "panicked"}

Built == builder # None /\ pc \in {"maze", "validating"}

(***************************************************************************)
(* C1: a build() of RecursiveBacktracking with width >= 1 and height >= 1  *)
(* that returns Ok yields a maze in which every cell is reachable from     *)
(* (0,0) through carved passages, and is_valid() returns true on it.       *)
(***************************************************************************)
C1_BuiltMazeIsValid ==
    (/\ Built
     /\ result.kind = "Ok"
     /\ The(builder).algorithm = RecursiveBacktracking
     /\ The(builder).start_coords \subseteq Coords(grid)
     /\ grid.width >= 1 /\ grid.height >= 1)
    => /\ AllReachable(grid)
       /\ valid # None => The(valid)

C1_Witness ==
    /\ Built
    /\ prev.grid = None
    /\ result.kind = "Ok"
    /\ The(builder).algorithm = RecursiveBacktracking
    /\ The(builder).start_coords \notin {None, Some(<<0, 0>>)}
    /\ The(builder).start_coords \subseteq Coords(grid)
    /\ grid.width * grid.height >= 6
    /\ valid = Some(TRUE)

(***************************************************************************)
(* C2: on every grid made by Grid::new and carve_passage calls, failed     *)
(* ones included, a cell is open toward a neighbour iff the neighbour is   *)
(* open toward the cell, and no cell is open toward the outside.           *)
(***************************************************************************)
C2_Symmetry ==
    HasGrid =>
        \A c \in Coords(grid), d \in Directions :
            IF HasNeighbour(grid, c, d)
            THEN is_carved(grid, c, d)
                     <=> is_carved(grid, Neighbour(c, d), opposite(d))
            ELSE ~is_carved(grid, c, d)

C2_Witness ==
    /\ pc = "carving"
    /\ last.op = "carve_passage"
    /\ ~last.ok
    /\ \E c \in Coords(grid) : Cardinality(CellAt(grid, c)) >= 2

(***************************************************************************)
(* C3: carve_passage and get_next_cell_coords fail exactly when the cell   *)
(* has no neighbour in the direction, return the neighbour's coordinates   *)
(* otherwise, and get_next_cell_coords leaves every cell as it was.        *)
(***************************************************************************)
ExpectedNeighbour(c, d) ==
    <<c[1] + (IF d = EAST THEN 1 ELSE IF d = WEST THEN -1 ELSE 0),
      c[2] + (IF d = SOUTH THEN 1 ELSE IF d = NORTH THEN -1 ELSE 0)>>

C3_CallOk ==
    last.op # "None" =>
        /\ last.ok <=> HasNeighbour(grid, last.coords, last.dir)
        /\ last.ok => last.ret = Some(ExpectedNeighbour(last.coords, last.dir))
        /\ ~last.ok => last.ret = None

C3_QueryIsPure ==
    (last' # last /\ last'.op = "get_next_cell_coords") => grid' = grid

C3_TransitResult == []C3_CallOk /\ [][C3_QueryIsPure]_vars

C3_Witness ==
    /\ last.op = "get_next_cell_coords"
    /\ ~last.ok
    /\ last.dir = EAST
    /\ grid.width >= 2
    /\ \E c \in Coords(grid) : CellAt(grid, c) # {}

(***************************************************************************)
(* C4: a second build with the same seed, size, algorithm and start        *)
(* coordinate returns a grid equal to the first, cell for cell, whatever   *)
(* happened between the two builds.                                        *)
(***************************************************************************)
Returned == builder # None /\ pc \in {"maze", "validating", "failed"}

C4_Determinism ==
    (/\ Returned
     /\ prev.grid # None
     /\ The(builder).seed # None)
    => prev.grid = Some(grid)

C4_Witness ==
    /\ Returned
    /\ result.kind = "Ok"
    /\ The(builder).algorithm = RecursiveBacktracking
    /\ The(builder).seed # None
    /\ The(builder).start_coords # None
    /\ thread_rng # None
    /\ grid.width * grid.height >= 6
    /\ prev.grid = Some(grid)

(***************************************************************************)
(* C5: build() returns a BuildError iff a start coordinate was given and   *)
(* the algorithm has no support for one; the message of the error names    *)
(* the algorithm; every other build returns Ok.                            *)
(***************************************************************************)
Unsupported ==
    /\ The(builder).start_coords # None
    /\ ~has_start_coords(The(builder).algorithm)

Message(alg) ==
    <<"Cannot build maze. Reason: ", "Algorithm ",
      <<"BACKQUOTE", name(alg), "BACKQUOTE">>, " doesn't support ",
      <<"BACKQUOTE", "start_coords", "BACKQUOTE">>>>

Finished == builder # None /\ pc \in {"maze", "validating", "failed", "panicked"}

C5_BuildError ==
    Finished =>
        /\ result.kind = "Err" <=> Unsupported
        /\ result.kind = "Err" => result.msg = Message(The(builder).algorithm)
        /\ ~Unsupported => result.kind = "Ok"

(***************************************************************************)
(* C6: when build() returns a BuildError, generate was not called and no   *)
(* cell of the allocated grid is carved.                                   *)
(***************************************************************************)
C6_NoGenerateOnError ==
    (builder # None /\ result.kind = "Err") =>
        /\ generate_calls = 0
        /\ \A k \in DOMAIN grid.cells : grid.cells[k] = {}

C6_Witness ==
    /\ builder # None
    /\ result.kind = "Err"
    /\ pc = "failed"
    /\ Len(grid.cells) >= 4

(***************************************************************************)
(* C7, as stated: validate returns true iff every cell of the grid is      *)
(* reachable from (0,0) through carved passages; the visited vector is the *)
(* set of cells reachable from (0,0) without a repetition, and the result  *)
(* is (its length = width * height).                                       *)
(***************************************************************************)
ValidateReturned == pc = "maze" /\ valid # None

VisitedIsReachable ==
    /\ Range(visited) = Reachable(grid)
    /\ NoDuplicates(visited)
    /\ The(valid) = (Len(visited) = grid.width * grid.height)

C7_AsStated ==
    ValidateReturned =>
        /\ The(valid) <=> AllReachable(grid)
        /\ VisitedIsReachable

(***************************************************************************)
(* C7, amended: on a grid with width >= 1 and height >= 1 validate returns *)
(* true iff every cell is reachable from (0,0) through carved passages; on *)
(* a grid with a zero dimension it returns false; on every grid the        *)
(* visited vector is the set reachable from (0,0) without a repetition and *)
(* the result is (its length = width * height).                            *)
(***************************************************************************)
C7_Validate ==
    ValidateReturned =>
        /\ IF grid.width >= 1 /\ grid.height >= 1
           THEN The(valid) <=> AllReachable(grid)
           ELSE ~The(valid)
        /\ VisitedIsReachable

C7_Witness ==
    /\ ValidateReturned
    /\ valid = Some(FALSE)
    /\ grid.width >= 2 /\ grid.height >= 2
    /\ Len(visited) >= 3

(***************************************************************************)
(* C8: two calls of is_valid() on one grid return the same boolean, though *)
(* the generator has moved on and the cells are visited in another order.  *)
(***************************************************************************)
C8_SameResult ==
    (ValidateReturned /\ prev.valid # None) => valid = prev.valid

C8_Witness ==
    /\ ValidateReturned
    /\ prev.valid = valid
    /\ prev.visited # Some(visited)
    /\ Len(visited) >= 4

(***************************************************************************)
(* C9: ends() returns the (coords, cell) pairs of exactly the cells with   *)
(* one passage flag, each once, in row-major order; on the 4 x 4 fixture   *)
(* of the tests it returns ((0,0), SOUTH), ((1,0), EAST), ((2,1), WEST),   *)
(* ((3,3), WEST).                                                          *)
(***************************************************************************)
RECURSIVE CarveAll(_, _)
CarveAll(g, calls) ==
    IF calls = <<>> THEN g
    ELSE CarveAll(carve_passage(g, Head(calls)[1], Head(calls)[2]).grid,
                  Tail(calls))

FixtureGrid == CarveAll(Grid_new(4, 4), ValidFixture)

FixtureEnds ==
    << <<<<0, 0>>, {SOUTH}>>, <<<<1, 0>>, {EAST}>>,
       <<<<2, 1>>, {WEST}>>, <<<<3, 3>>, {WEST}>> >>

RowMajor(g, c) == c[2] * g.width + c[1]

C9_Ends ==
    (pc = "maze" /\ ends_result # None) =>
        LET e == The(ends_result) IN
        /\ \A i \in DOMAIN e :
             /\ e[i][1] \in Coords(grid)
             /\ e[i][2] = CellAt(grid, e[i][1])
             /\ Cardinality(e[i][2]) = 1
        /\ \A c \in Coords(grid) :
             Cardinality(CellAt(grid, c)) = 1
                 => Cardinality({i \in DOMAIN e : e[i][1] = c}) = 1
        /\ \A i, j \in DOMAIN e :
             i < j => RowMajor(grid, e[i][1]) < RowMajor(grid, e[j][1])
        /\ grid = FixtureGrid => e = FixtureEnds

C9_Witness ==
    /\ pc = "maze"
    /\ ends_result # None
    /\ grid = FixtureGrid
    /\ Len(The(ends_result)) = 4

(***************************************************************************)
(* C10: iter() yields the N = width * height cells and then None; the k-th *)
(* item (k from 0) is ((k mod width, k div width), the cell at index k);   *)
(* every iter() starts again at position 0 and iterating leaves the maze   *)
(* as it was.                                                              *)
(***************************************************************************)
C10_Yielded ==
    (pc = "maze" /\ it.active) =>
        /\ Len(yielded) = it.index
        /\ Len(yielded) <= grid.width * grid.height
        /\ it.done => Len(yielded) = grid.width * grid.height
        /\ \A k \in 0..(Len(yielded) - 1) :
             LET c == yielded[k + 1][1] IN
             /\ c = <<k % grid.width, k \div grid.width>>
             /\ k = c[2] * grid.width + c[1]
             /\ yielded[k + 1][2] = grid.cells[k + 1]

C10_IterStep ==
    (it' # it /\ it'.active) =>
        /\ grid' = grid
        /\ \/ it'.index = 0 /\ ~it'.done /\ yielded' = <<>>
           \/ /\ it.active
              /\ it'.index = it.index + 1
              /\ Len(yielded') = Len(yielded) + 1
              /\ SubSeq(yielded', 1, Len(yielded)) = yielded
           \/ /\ it.active
              /\ it'.done
              /\ it'.index = it.index
              /\ yielded' = yielded

C10_Iter == []C10_Yielded /\ [][C10_IterStep]_vars

C10_Witness ==
    /\ pc = "maze"
    /\ it.active
    /\ it.done
    /\ Len(yielded) = 16
    /\ grid = FixtureGrid

(***************************************************************************)
(* C11: the consuming iterator yields what iter() yields on the same maze, *)
(* in the same order; after k items exactly the last N - k cells of the    *)
(* original order remain, and after None the cell vector is empty.         *)
(***************************************************************************)
C11_IntoIter ==
    into # None =>
        LET all == collect(grid, 0)
            k == Len(into_yielded)
            N == Len(grid.cells)
        IN /\ k <= N
           /\ The(into).index = k
           /\ into_yielded = SubSeq(all, 1, k)
           /\ Len(The(into).cells) = N - k
           /\ The(into).cells = SubSeq(grid.cells, k + 1, N)
           /\ into_done => (The(into).cells = <<>> /\ into_yielded = all)
           /\ (grid = FixtureGrid /\ k >= 6)
                  => into_yielded[6] = <<<<1, 1>>, {SOUTH, EAST, WEST}>>

C11_Witness ==
    /\ into # None
    /\ into_done
    /\ Len(into_yielded) = 6
    /\ into_yielded[1][2] # into_yielded[6][2]
    /\ into_yielded[5] = <<<<1, 1>>, {NORTH, WEST}>>

(***************************************************************************)
(* C12: for width >= 1 and height >= 1 the text of AsciiNarrow is the      *)
(* border line (a space, 2*width-1 underscores, a space) and one line per  *)
(* row: '|', then for every cell its south character ('_' iff SOUTH is not *)
(* carved) and its east character ('|' iff EAST is not carved, else ' ' if *)
(* SOUTH is carved at the cell or at its east neighbour, else '_').  The   *)
(* text of the 4 x 4 fixture is the one the test asserts.                  *)
(***************************************************************************)
\* the concatenation of the strings of a sequence
RECURSIVE Concat(_)
Concat(strs) == IF strs = <<>> THEN "" ELSE Head(strs) \o Concat(Tail(strs))

NarrowSouth(g, x, y) == IF SOUTH \in CellAt(g, <<x, y>>) THEN " " ELSE "_"

NarrowEast(g, x, y) ==
    CASE EAST \notin CellAt(g, <<x, y>>) -> "|"
      [] EAST \in CellAt(g, <<x, y>>)
           /\ (\/ SOUTH \in CellAt(g, <<x, y>>)
               \/ SOUTH \in CellAt(g, <<x + 1, y>>)) -> " "
      [] OTHER -> "_"

NarrowLine(g, y) ==
    "|" \o Concat([i \in 1..g.width |->
                       NarrowSouth(g, i - 1, y) \o NarrowEast(g, i - 1, y)])

NarrowBorder(g) ==
    " " \o Concat([i \in 1..(2 * g.width - 1) |-> "_"]) \o " "

NarrowText(g) ==
    Concat(<<NarrowBorder(g), "\n">>)
    \o Concat([j \in 1..g.height |-> NarrowLine(g, j - 1) \o "\n"])

NarrowFixtureText ==
    " _______ \n| |___  |\n|_   _| |\n|  _____|\n|_______|\n"

C12_AsciiNarrow ==
    (/\ formatted # None
     /\ The(formatted).formatter = AsciiNarrow
     /\ grid.width >= 1 /\ grid.height >= 1)
    => /\ The(formatted).text = NarrowText(grid)
       /\ Len(The(formatted).text) = (grid.height + 1) * (2 * grid.width + 2)
       /\ grid = FixtureGrid => The(formatted).text = NarrowFixtureText

C12_Witness ==
    /\ formatted # None
    /\ The(formatted).formatter = AsciiNarrow
    /\ grid = FixtureGrid
    /\ The(formatted).text = NarrowFixtureText

(***************************************************************************)
(* C13: for width >= 1 the text of AsciiBroad has 2*height+1 lines of      *)
(* 4*width+1 characters: the border '+' and width times '---+', then per   *)
(* row a top line ('|', and per cell three spaces and ' ' iff EAST is      *)
(* carved, else '|') and a bottom line ('+', and per cell three spaces iff *)
(* SOUTH is carved, else '---', and '+').  The text of the 4 x 4 fixture   *)
(* is the nine lines the test asserts.                                     *)
(***************************************************************************)
BroadBorder(g) == "+" \o Concat([i \in 1..g.width |-> "---+"])

BroadTop(g, y) ==
    "|" \o Concat([i \in 1..g.width |->
                       "   " \o (IF EAST \in CellAt(g, <<i - 1, y>>)
                                 THEN " " ELSE "|")])

BroadBottom(g, y) ==
    "+" \o Concat([i \in 1..g.width |->
                       (IF SOUTH \in CellAt(g, <<i - 1, y>>)
                        THEN "   " ELSE "---") \o "+"])

\* the lines of the text, the border first
BroadLines(g) ==
    [k \in 1..(2 * g.height + 1) |->
        IF k = 1 THEN BroadBorder(g)
        ELSE IF k % 2 = 0 THEN BroadTop(g, (k \div 2) - 1)
        ELSE BroadBottom(g, ((k - 1) \div 2) - 1)]

BroadFixtureText ==
    Concat(<<"+---+---+---+---+\n",
             "|   |           |\n",
             "+   +---+---+   +\n",
             "|           |   |\n",
             "+---+   +---+   +\n",
             "|               |\n",
             "+   +---+---+---+\n",
             "|               |\n",
             "+---+---+---+---+\n">>)

C13_AsciiBroad ==
    (/\ formatted # None
     /\ The(formatted).formatter = AsciiBroad
     /\ grid.width >= 1)
    => LET lines == BroadLines(grid) IN
       /\ Len(lines) = 2 * grid.height + 1
       /\ \A k \in DOMAIN lines : Len(lines[k]) = 4 * grid.width + 1
       /\ The(formatted).text
             = Concat([k \in DOMAIN lines |-> lines[k] \o "\n"])
       /\ grid = FixtureGrid => The(formatted).text = BroadFixtureText

C13_Witness ==
    /\ formatted # None
    /\ The(formatted).formatter = AsciiBroad
    /\ grid = FixtureGrid
    /\ The(formatted).text = BroadFixtureText

(***************************************************************************)
(* C14: save resolves the path, creates the file and writes the text, in   *)
(* this order.  It returns Ok, with the message that names the resolved    *)
(* path, iff the three calls succeed; when a call fails it returns a       *)
(* MazeSaveError whose reason names that call, and no later call is made:  *)
(* no file after a failed resolution or create, no text after a failed     *)
(* write.                                                                  *)
(***************************************************************************)
SaveSteps == <<"current_dir", "create", "write_all">>

Resolved(path) ==
    IF path.absolute THEN path.name ELSE "/cwd/" \o path.name

FailureReason(step, path) ==
    CASE step = "current_dir" -> "Couldn't find path to current dir: os error"
      [] step = "create" ->
           "Couldn't create " \o Resolved(path) \o ": os error"
      [] step = "write_all" ->
           "Couldn't write to " \o Resolved(path) \o ": os error"

C14_Save ==
    saved # None =>
        LET res == The(saved).result
            n == Len(io)
        IN /\ n \in 1..3
           /\ \A k \in 1..n : io[k][1] = SaveSteps[k]
           /\ \A k \in 1..(n - 1) : io[k][2]
           /\ res.kind = "Ok" <=> (n = 3 /\ \A k \in 1..3 : io[k][2])
           /\ res.kind = "Ok" =>
                 /\ res.msg = "Maze was successfully written to a file: "
                               \o Resolved(The(saved).path)
                 /\ file = Some(The(formatted).text)
           /\ res.kind # "Ok" =>
                 /\ res.kind = "Err"
                 /\ ~io[n][2]
                 /\ res.msg = FailureReason(io[n][1], The(saved).path)
                 /\ file # Some(The(formatted).text)
                 /\ n <= 2 => file = None

C14_Witness ==
    /\ saved # None
    /\ The(saved).result.kind = "Err"
    /\ Len(io) = 2
    /\ The(saved).path.absolute = FALSE
    /\ file = None
    /\ The(formatted).formatter = AsciiBroad
    /\ grid.width = 3 /\ grid.height = 2

(***************************************************************************)
(* C15, as stated: the map of the all-ends search has one entry per dead   *)
(* end of the maze, keyed (start, dead end), whose path begins at start    *)
(* and ends at the dead end.                                               *)
(***************************************************************************)
DeadEnds(g) == {c \in Coords(g) : Cardinality(CellAt(g, c)) = 1}

ReachableFrom(g, c) == Closure(g, {c})

PathsFromStartTo(goals) ==
    LET e == The(ends_paths) IN
    /\ DOMAIN e.paths = {<<e.start, c>> : c \in goals}
    /\ \A key \in DOMAIN e.paths :
          LET path == e.paths[key].path IN
          /\ path # <<>>
          /\ path[1] = e.start
          /\ path[Len(path)] = key[2]

C15_AsStated ==
    ends_paths # None => PathsFromStartTo(DeadEnds(grid))

(***************************************************************************)
(* C15, amended: the map has one entry per dead end that is reachable from *)
(* start through carved passages, and none for any other cell; on a maze   *)
(* whose cells are all reachable from start that is one per dead end.      *)
(***************************************************************************)
C15_EndsPaths ==
    ends_paths # None =>
        LET e == The(ends_paths) IN
        /\ PathsFromStartTo(DeadEnds(grid) \cap ReachableFrom(grid, e.start))
        /\ Coords(grid) \subseteq ReachableFrom(grid, e.start)
              => PathsFromStartTo(DeadEnds(grid))

C15_Witness ==
    /\ ends_paths # None
    /\ AllReachable(grid)
    /\ Cardinality(DeadEnds(grid)) = 3
    /\ The(ends_paths).start \in DeadEnds(grid)
    /\ Cardinality(DOMAIN The(ends_paths).paths) = 3

(***************************************************************************)
(* C16: on a grid on which validate returns true the search from any cell  *)
(* to any cell returns a path (put the other way round: where the search   *)
(* returns None, validate returns false); on any grid it returns None      *)
(* exactly when the goal is not reachable from the start through carved    *)
(* passages.                                                               *)
(***************************************************************************)
\* validate run to its end with the thread-local generator in state r
RECURSIVE RunVisit(_, _, _, _)
RunVisit(g, vis, st, r) ==
    IF st = <<>> THEN vis
    ELSE LET n == visit(g, vis, st, r) IN RunVisit(g, n.visited, n.stack, n.rng)

Validates(g) ==
    \E r \in ThreadStates :
        LET v == validate(g, r) IN
        validate_result(g, RunVisit(g, v.visited, v.stack, v.rng))

\* a sequence of cells from a to b, each joined to the next by a passage
IsPath(g, path, a, b) ==
    /\ path # <<>>
    /\ path[1] = a
    /\ path[Len(path)] = b
    /\ \A i \in 1..(Len(path) - 1) :
          \E d \in CellAt(g, path[i]) : path[i + 1] = Neighbour(path[i], d)

C16_Search ==
    found # None =>
        LET f == The(found) IN
        /\ f.result = None => ~Validates(grid)
        /\ f.result = None <=> f.goal \notin ReachableFrom(grid, f.start)
        /\ f.result # None => IsPath(grid, The(f.result).path, f.start, f.goal)

C16_Witness ==
    /\ found # None
    /\ Validates(grid)
    /\ The(found).result # None
    /\ Len(The(The(found).result).path) = 6

(***************************************************************************)
(* C17, as stated: with the maze and the start fixed, the cost of the path *)
(* found is non-decreasing in the Manhattan distance of the goal: a goal   *)
(* at least as far from the start in Manhattan distance costs at least as  *)
(* much to reach.  Stated for the maze without Cost annotations, where     *)
(* every step costs 1.                                                     *)
(***************************************************************************)
Manhattan(a, b) ==
    (IF a[1] >= b[1] THEN a[1] - b[1] ELSE b[1] - a[1])
    + (IF a[2] >= b[2] THEN a[2] - b[2] ELSE b[2] - a[2])

\* the cost of the path the search finds from the start of the last search
CostTo(goal) ==
    The(astar(grid, The(found).start, goal, The(found).costs)).cost

C17_AsStated ==
    (/\ found # None
     /\ The(found).result # None
     /\ DOMAIN The(found).costs = {}) =>
        LET f == The(found) IN
        \A g2 \in ReachableFrom(grid, f.start) :
            Manhattan(f.start, f.goal) <= Manhattan(f.start, g2)
                => The(f.result).cost <= CostTo(g2)

(***************************************************************************)
(* C17, amended: the cost of the path found is never less than the         *)
(* Manhattan distance between start and goal, and it is non-decreasing     *)
(* along the path found: a cell of the path costs no more to reach than    *)
(* any cell after it on the path.                                          *)
(***************************************************************************)
C17_Cost ==
    (found # None /\ The(found).result # None) =>
        LET f == The(found)
            path == The(f.result).path
        IN /\ The(f.result).cost >= Manhattan(f.start, f.goal)
           /\ CostTo(f.goal) = The(f.result).cost
           /\ \A i, j \in DOMAIN path :
                 i <= j => CostTo(path[i]) <= CostTo(path[j])

C17_Witness ==
    /\ found # None
    /\ The(found).result # None
    /\ The(found).start = <<0, 0>>
    /\ The(found).goal = <<0, 1>>
    /\ The(found).costs = <<>>
    /\ The(The(found).result).cost = 5

(***************************************************************************)
(* C18: every build(), zero dimensions and a start coordinate outside the  *)
(* grid included, ends by returning Ok or Err; none reaches a contract     *)
(* violation such as an out-of-range access of the grid.                   *)
(***************************************************************************)
C18_BuildReturns ==
    builder # None =>
        /\ pc # "panicked"
        /\ result.kind # "Panic"
        /\ Finished => result.kind \in {"Ok", "Err"}

(***************************************************************************)
(* C19, as stated: in every maze a successful build() with width >= 1 and  *)
(* height >= 1 returns, every cell has a passage flag set.  Stated for the *)
(* builds of RecursiveBacktracking with no start coordinate or one inside  *)
(* the grid.                                                               *)
(***************************************************************************)
NoEmptyCell(g) == \A c \in Coords(g) : is_cell_visited(g, c)

StartCell ==
    IF The(builder).start_coords = None THEN <<0, 0>>
    ELSE The(The(builder).start_coords)

Generating ==
    /\ builder # None
    /\ pc = "generating"
    /\ StartCell \in Coords(grid)

RECURSIVE Pending(_)
Pending(st) ==
    IF st = <<>> THEN 0 ELSE Len(Head(st).dirs) + 1 + Pending(Tail(st))

\* 5 for every cell not carved yet, 1 for every call in progress and every
\* direction it has still to try
Measure(g, st) ==
    5 * Cardinality({c \in Coords(g) : ~is_cell_visited(g, c)}) + Pending(st)

C20_Bounded ==
    Generating =>
        /\ Len(stack) <= grid.width * grid.height
        /\ NoDuplicates([i \in DOMAIN stack |-> stack[i].coords])
        /\ NoDuplicates(entered)
        /\ StartCell \notin Range(entered)
        /\ Range(entered) \subseteq Coords(grid)

C20_Decreases ==
    Generating =>
        /\ Measure(grid', stack') < Measure(grid, stack)
        /\ Measure(grid', stack') >= 0

C20_Returns == Generating ~> (pc = "maze" /\ result.kind = "Ok")

C20_Terminates ==
    /\ []C20_Bounded
    /\ [][C20_Decreases]_vars
    /\ C20_Returns

C20_Witness ==
    /\ builder # None
    /\ pc = "maze"
    /\ result.kind = "Ok"
    /\ The(builder).algorithm = RecursiveBacktracking
    /\ The(builder).start_coords = Some(<<1, 0>>)
    /\ grid.width = 3 /\ grid.height = 2
    /\ Len(entered) = 5

(***************************************************************************)
(* C21: format, is_valid, ends and iter are read-only on the maze: however *)
(* the steps of any number of them interleave on one finished maze, no     *)
(* step changes a cell, and each call returns what it returns when it runs *)
(* alone on that maze (so two calls of one method with one argument return *)
(* the same).                                                              *)
(***************************************************************************)
\* is_valid() run alone from start to end
ValidateAlone(g) ==
    LET v == validate(g, 0) IN
    validate_result(g, RunVisit(g, v.visited, v.stack, v.rng))

C21_SameAsAlone ==
    /\ returned.is_valid # {} => returned.is_valid = {ValidateAlone(grid)}
    /\ returned.iter \subseteq {collect(grid, 0)}
    /\ returned.ends \subseteq {ends(grid)}
    /\ \A t \in returned.format : t.text = format(t.formatter, grid).text
    /\ (pc = "maze" /\ it.active) => yielded = SubSeq(collect(grid, 0), 1, it.index)

C21_CellsUnchanged == pc = "maze" => grid' = grid

C21_ReadOnly == []C21_SameAsAlone /\ [][C21_CellsUnchanged]_vars

C21_Witness ==
    /\ pc = "maze"
    /\ reads = MaxReads
    /\ vstack # <<>> /\ Len(visited) >= 2
    /\ it.active /\ ~it.done /\ it.index >= 2
    /\ returned.format # {}
    /\ walls_count(CellAt(grid, <<0, 0>>)) = 3

(***************************************************************************)
(* C22, as stated: every build() calls generate exactly once.              *)
(***************************************************************************)
C22_AsStated == Finished => generate_calls = 1

(***************************************************************************)
(* C22, amended: a build() that returns a BuildError does not call         *)
(* generate; every other build() calls it exactly once, on the grid it     *)
(* allocated, with the start coordinate of the builder (None when none was *)
(* set, which RecursiveBacktracking takes as (0,0)) and the generator made *)
(* for this build: seeded with the seed of the builder when it has one,    *)
(* from the OS otherwise.  No later step of the build calls it again.      *)
(***************************************************************************)
GenerateCalled == builder # None /\ pc # "builder"

C22_Calls ==
    GenerateCalled => generate_calls = IF result.kind = "Err" THEN 0 ELSE 1

\* the generators build() can make for the builder b
BuildRngs(b) ==
    IF b.seed = None THEN OsStates ELSE {seed_from_u64(The(b.seed))}

C22_Call ==
    (pc = "builder" /\ pc' # "builder") =>
        LET b == The(builder)
            maze == Grid_new(b.width, b.height)
        IN /\ builder' = builder
           /\ pc' = "failed" => (generate_calls' = generate_calls /\ grid' = maze)
           /\ pc' = "generating" =>
                 /\ b.algorithm = RecursiveBacktracking
                 /\ generate_calls' = generate_calls + 1
                 /\ grid' = maze
                 /\ Len(stack') = 1
                 /\ stack'[1].coords = StartCell
                 /\ \E r \in BuildRngs(b) :
                      LET sh == shuffle(DirsArray, r) IN
                      stack'[1].dirs = sh.dirs /\ rng' = sh.rng
           /\ pc' = "maze" =>
                 /\ b.algorithm = RecursiveDivision
                 /\ b.start_coords = None
                 /\ generate_calls' = generate_calls + 1
                 /\ \E r \in BuildRngs(b) :
                      LET g == RecursiveDivision_generate(maze, r) IN
                      grid' = g.grid /\ rng' = g.rng

C22_NoSecondCall ==
    (pc # "builder" /\ pc' # "builder") => generate_calls' = generate_calls

C22_GenerateOnce ==
    /\ []C22_Calls
    /\ [][C22_Call /\ C22_NoSecondCall]_vars

C22_Witness ==
    /\ builder # None
    /\ pc = "maze"
    /\ result.kind = "Ok"
    /\ generate_calls = 1
    /\ prev.grid # None
    /\ The(builder).algorithm = RecursiveBacktracking
    /\ The(builder).start_coords = Some(<<2, 1>>)
    /\ The(builder).seed = Some(1)
    /\ Len(entered) = 5

(***************************************************************************)
(* C23: a path the pathfinder returns is a sequence of cells from the      *)
(* start to the goal, both included, each cell joined to the next by a     *)
(* carved passage; where no cell has a Cost, its cost is its number of     *)
(* steps and no sequence of carved passages from the start to the goal has *)
(* fewer steps.                                                            *)
(***************************************************************************)
\* the number of steps of the shortest walk from the cells S to goal, when
\* S was reached in n steps: breadth first, one layer of passages at a time
RECURSIVE Layers(_, _, _, _)
Layers(g, S, goal, n) ==
    IF goal \in S THEN n ELSE Layers(g, Moves(g, S), goal, n + 1)

ShortestSteps(g, a, b) == Layers(g, {a}, b, 0)

C23_ShortestPath ==
    (found # None /\ The(found).result # None) =>
        LET f == The(found)
            r == The(f.result)
        IN /\ IsPath(grid, r.path, f.start, f.goal)
           /\ DOMAIN f.costs = {} =>
                 /\ r.cost = Len(r.path) - 1
                 /\ r.cost = ShortestSteps(grid, f.start, f.goal)

C23_Witness ==
    /\ found # None
    /\ The(found).result # None
    /\ DOMAIN The(found).costs = {}
    /\ The(The(found).result).cost = 3
    /\ Manhattan(The(found).start, The(found).goal) = 1
    /\ \A c \in Coords(grid) : Cardinality(CellAt(grid, c)) >= 2
    /\ grid.width * grid.height = 6

(***************************************************************************)
(* C24: the stored all-ends result is that of the last computation: after  *)
(* any runs with any Start cells, the stored mapping is exactly what the   *)
(* most recent run that saw one Start cell computed, every key has that    *)
(* start, and no entry of a run from another start is left.                *)
(***************************************************************************)
\* a run that saw one Start cell has just ended
UniqueStartRun == invoked' # None /\ Cardinality(The(invoked').starts) = 1

C24_Stored ==
    ends_paths # None =>
        LET e == The(ends_paths) IN
        /\ \A k \in DOMAIN e.paths : k[1] = e.start
        /\ e.paths = find_maze_ends_paths(grid, e.start, e.costs)

C24_Run ==
    (invoked' # invoked /\ UniqueStartRun) =>
        /\ ends_paths' # None
        /\ The(invoked').starts = {The(ends_paths').start}
        /\ \A k \in DOMAIN The(ends_paths').paths :
              k[1] \in The(invoked').starts

C24_LastOnly == []C24_Stored /\ [][C24_Run]_vars

C24_Witness ==
    /\ ends_paths # None
    /\ invoked = Some([starts |-> {<<1, 1>>}, replaced |-> Some(<<0, 0>>)])
    /\ The(ends_paths).start = <<1, 1>>
    /\ maze_ends = {<<0, 0>>, <<1, 0>>}
    /\ DOMAIN The(ends_paths).paths = {<<<<1, 1>>, <<0, 0>>>>, <<<<1, 1>>, <<1, 0>>>>}

(***************************************************************************)
(* C25: contains_path_to_end(goal, c) returns true iff the stored mapping  *)
(* has an entry whose end is goal and whose path contains c, and false     *)
(* when no entry ends at goal; the stored mapping has one entry for an end *)
(* at most, so the iteration order of the map cannot change the answer.    *)
(***************************************************************************)
EntriesTo(goal) == {k \in DOMAIN StoredPaths : k[2] = goal}

C25_Contains ==
    /\ queried # None =>
          LET q == The(queried) IN
          /\ q.result <=> \E k \in EntriesTo(q.goal) :
                              q.path_coord \in Range(StoredPaths[k].path)
          /\ EntriesTo(q.goal) = {} => ~q.result
    /\ pc = "maze" =>
          \A goal \in Coords(grid) :
              /\ Cardinality(EntriesTo(goal)) <= 1
              /\ \A c \in Coords(grid) :
                    Cardinality(contains_path_to_end(StoredPaths, goal, c)) = 1

C25_Witness ==
    /\ queried # None
    /\ The(queried).result
    /\ Cardinality(DOMAIN StoredPaths) = 2
    /\ \E k \in EntriesTo(The(queried).goal) :
          /\ Len(StoredPaths[k].path) = 4
          /\ The(queried).path_coord = StoredPaths[k].path[2]
    /\ \E k \in DOMAIN StoredPaths :
          The(queried).path_coord \notin Range(StoredPaths[k].path)

(***************************************************************************)
(* C26: for every width of a grid, 0 included, AsciiNarrow computes the    *)
(* length width * 2 - 1 of its border without an underflow and returns a   *)
(* text whose first line is that many underscores between two spaces: no   *)
(* call of the formatter panics.                                           *)
(***************************************************************************)
NarrowPanicked == builder = None /\ pc = "panicked" /\ grid.width = 0

C26_NoUnderflow ==
    /\ ~NarrowPanicked
    /\ (formatted # None /\ The(formatted).formatter = AsciiNarrow) =>
          /\ grid.width * 2 - 1 >= 0
          /\ The(formatted).text = NarrowText(grid)

(***************************************************************************)
(* C27: RecursiveBacktracking builds a spanning tree.  At every step of    *)
(* the generation the cells reached (the start, (0,0) without one, and the *)
(* cells carved into) are cells of the grid joined to the start by         *)
(* passages, with one passage less than cells; every carve goes from a     *)
(* reached cell to a cell that was empty; and when generate returns on a   *)
(* grid with width >= 1 and height >= 1 there are width * height - 1       *)
(* passages and every cell is reached, so no passage closes a cycle.       *)
(***************************************************************************)
PassageCount(g) ==
    Cardinality({p \in Coords(g) \X {SOUTH, EAST} : p[2] \in CellAt(g, p[1])})

ReachedCells == {StartCell} \cup Range(entered)

Backtracking ==
    /\ builder # None
    /\ The(builder).algorithm = RecursiveBacktracking
    /\ The(builder).width >= 1 /\ The(builder).height >= 1

C27_Tree ==
    (Backtracking /\ pc \in {"generating", "maze"}) =>
        /\ ReachedCells \subseteq Coords(grid)
        /\ ReachedCells = ReachableFrom(grid, StartCell)
        /\ PassageCount(grid) = Cardinality(ReachedCells) - 1
        /\ pc = "maze" =>
              /\ PassageCount(grid) = grid.width * grid.height - 1
              /\ ReachedCells = Coords(grid)

C27_Carve ==
    (Backtracking /\ pc = "generating" /\ grid' # grid) =>
        \E c \in ReachedCells, d \in Directions :
            LET n == Neighbour(c, d) IN
            /\ c \in Coords(grid) /\ n \in Coords(grid)
            /\ CellAt(grid, n) = {}
            /\ grid' = carve_passage(grid, c, d).grid
            /\ entered' = Append(entered, n)

C27_SpanningTree == []C27_Tree /\ [][C27_Carve]_vars

(***************************************************************************)
(* C28: on a grid with a zero dimension validate returns false and reads   *)
(* no cell: the visited vector is (0,0) alone from the start to the end,   *)
(* so its length is never width * height = 0; every direction tried from   *)
(* (0,0) is refused by get_next_cell_coords, so the loop goes on before    *)
(* is_carved is called, and visit is never called for a second cell.       *)
(***************************************************************************)
ZeroDimension ==
    pc \in {"maze", "validating"} /\ grid.width * grid.height = 0

C28_Returned ==
    (ZeroDimension /\ ValidateReturned) =>
        /\ valid = Some(FALSE)
        /\ visited = <<<<0, 0>>>>
        /\ Len(visited) # grid.width * grid.height

C28_Step ==
    (ZeroDimension /\ pc = "validating") =>
        /\ visited' = visited
        /\ Len(vstack) = 1
        /\ Top(vstack).coords = <<0, 0>>
        /\ Top(vstack).dirs # <<>> =>
              ~get_next_cell_coords(grid, <<0, 0>>, Head(Top(vstack).dirs)).ok

C28_ZeroDimension == []C28_Returned /\ [][C28_Step]_vars

C28_Witness ==
    /\ ValidateReturned
    /\ grid.width = 0 /\ grid.height = 2
    /\ valid = Some(FALSE)
    /\ prev.valid = Some(FALSE)

(***************************************************************************)
(* C29: on every grid made from Grid::new by carve_passage calls the two   *)
(* ASCII formatters read cells of the grid only: EAST is carved at (x, y)  *)
(* only where x + 1 < width, and AsciiNarrow looks at the cell (x + 1, y)  *)
(* only where EAST is carved at (x, y).                                    *)
(***************************************************************************)
format_reads(f, g) == IF f = AsciiNarrow THEN narrow_reads(g) ELSE broad_reads(g)

C29_InGridReads ==
    (builder = None /\ pc \in {"maze", "panicked"}) =>
        /\ \A c \in Coords(grid) :
              is_carved(grid, c, EAST) => c[1] + 1 < grid.width
        /\ \A c \in Coords(grid) :
              <<c[1] + 1, c[2]>> \in narrow_east_reads(grid, c[1], c[2])
                  => is_carved(grid, c, EAST)
        /\ formatted # None =>
              format_reads(The(formatted).formatter, grid) \subseteq Coords(grid)

C29_Witness ==
    /\ builder = None
    /\ formatted # None
    /\ The(formatted).formatter = AsciiNarrow
    /\ grid.width = 3 /\ grid.height = 2
    /\ <<2, 0>> \in narrow_east_reads(grid, 1, 0)
    /\ is_carved(grid, <<0, 0>>, EAST)
    /\ <<1, 0>> \notin narrow_east_reads(grid, 0, 0)

(***************************************************************************)
(* C30: a run of find_maze_ends_paths that does not see exactly one Start  *)
(* cell (none, or several) has no effect: the stored mapping is the one    *)
(* stored before and no cell is newly marked MazeEnd.  A run that sees     *)
(* exactly one Start cell marks exactly the cells with one passage.        *)
(***************************************************************************)
OnePassage ==
    {c \in Coords(grid) :
         Cardinality({d \in Directions : is_carved(grid, c, d)}) = 1}

\* a step that is a run of find_maze_ends_paths
C30_Invoked ==
    /\ pc = "maze"
    /\ invoked' # None
    /\ queried' = None
    /\ invoked' # invoked \/ queried # None

C30_Run ==
    C30_Invoked =>
        IF Cardinality(The(invoked').starts) # 1
        THEN /\ ends_paths' = ends_paths
             /\ maze_ends' = maze_ends
        ELSE /\ maze_ends' \ maze_ends \subseteq OnePassage
             /\ OnePassage \subseteq maze_ends'
             /\ maze_ends' = OnePassage

C30_NoEffectWithoutOneStart == [][C30_Run]_vars

C30_Witness ==
    /\ invoked # None
    /\ Cardinality(The(invoked).starts) = 2
    /\ ends_paths # None
    /\ maze_ends = OnePassage
    /\ maze_ends # {}
    /\ maze_ends # Coords(grid)

====
